---- MODULE Spec2Model ----
(***************************************************************************)
(* Batch transcription-analysis orchestrator of bom-ai/ai-server.          *)
(*                                                                         *)
(* State: the in-process job dictionary of PipelineService, the background *)
(* task of every started job (its position in _batch_analysis_task and its *)
(* locals), the analyze_text call that task is waiting for, and the        *)
(* process-wide state of the two language-model services (client           *)
(* initialised, per-model counters, per-model semaphores).                 *)
(*                                                                         *)
(* One action is one block of code between two suspension points (await)   *)
(* of the asyncio event loop: nothing else runs inside such a block.       *)
(***************************************************************************)
EXTENDS Integers, Sequences, FiniteSets, TLC

\* ------------------------------------------------------------------ bounds
\* Longest list of filenames a client submits.
MaxFiles == 3
\* Largest number of analysis items extracted from a frame document.
MaxItems == 11
\* Value of the setting stt_max_attempts in the modelled deployment
\* (Settings reads it from the environment; the default is 150).
stt_max_attempts == 2
\* Largest value of a rate_limited counter: the provider answers with a
\* rate-limit error only while the model's counter is below it.
MaxRateLimited == 2
\* Guarded calls one client of the limiter makes.
MaxCalls == 2
\* Latest time at which a guarded call is started.
MaxTime == 60
\* Largest attempt number a wait strategy is asked about.
MaxAttemptNumber == 6
\* Lines of the longest transcript analysed.
MaxLines == 21
\* Largest overlap asked of a split.
MaxOverlap == 11
\* Slots a model may have beyond its configured number.
MaxSurplus == 2

\* ------------------------------------------------------- program constants
\* custom_items[:10] in _generate_fallback_response
FallbackItemLimit == 10
\* stop_after_attempt(3) on _make_api_call_with_retry
OpenAIMaxAttempts == 3
\* max_retries: int = 2 of GeminiService._try_model_analysis
GeminiMaxRetries == 2
\* current_time - req_time < 60 in wait_for_rate_limit
RateWindow == 60
\* len(lines) < 20 in split_transcript_with_overlap
SplitThreshold == 20
\* overlap_lines=5, the default _make_api_call_with_retry leaves in place
OverlapLines == 5
\* len(sentences) < 20 in split_transcript
SentenceSplitThreshold == 20

Min(a, b) == IF a < b THEN a ELSE b

\* ------------------------------------------------------------------ values
\* Job ids (uuid4 strings).  Jobs share nothing but the service objects, and
\* one job at a time is followed through the interleavings of its requests
\* and its background task.
JobIds == {"job-1"}
\* The audio files a client has; a submitted list draws its names from them.
FileOrder == << "file1", "file2", "file3" >>
FileNames == { FileOrder[k] : k \in 1..Len(FileOrder) }
Providers == {"openai", "gemini"}

NoJob == [status |-> "absent"]

\* A Python dict as a function on its key set.
EmptyDict == << >>
Put(d, k, v) == [x \in (DOMAIN d) \cup {k} |-> IF x = k THEN v ELSE d[x]]

\* dict keys keep insertion order and drop repeated keys:
\* list(gcs_object_names.keys()) for gcs_object_names filled from filenames.
RECURSIVE DictKeys(_)
DictKeys(filenames) ==
    IF filenames = << >> THEN << >>
    ELSE LET front == DictKeys(SubSeq(filenames, 1, Len(filenames) - 1))
             last  == filenames[Len(filenames)]
         IN  IF \E k \in 1..Len(front) : front[k] = last
             THEN front
             ELSE Append(front, last)

\* Lists of 1..MaxFiles filenames; a list may repeat a name (the form field
\* is a plain list).  Names are interchangeable, so one list stands for all
\* its renamings: a name not seen earlier in the list is the next of FileOrder.
FilenameLists ==
    { s \in UNION { [1..n -> FileNames] : n \in 1..MaxFiles } :
        \A k \in 1..Len(s) :
            \/ \E h \in 1..(k - 1) : s[h] = s[k]
            \/ s[k] = FileOrder[Cardinality({ s[h] : h \in 1..(k - 1) }) + 1] }

\* mapping: {filename: group}; a file without an entry gets "Unknown Group".
\* The submitted mapping names the first file only, so both cases occur.
Mappings == { [f \in {"file1"} |-> "group"] }

\* A frame document: readable or not, and the number of analysis items
\* extract_table_headers_with_subitems + format_items_for_prompt yield.
FrameContents ==
    { [readable |-> FALSE, items |-> 0] } \cup
    { [readable |-> TRUE, items |-> n] : n \in {0, MaxItems} }


\* ------------------------------------------------------------------- state
VARIABLES
    batch_jobs,    \* PipelineService.batch_jobs: job id -> job record
    created,       \* job id -> number of asyncio tasks created for it
    task,          \* job id -> locals of its _batch_analysis_task
    call,          \* job id -> the analyze_text call its task awaits
    reply,         \* answer to the last submit or start request
    initialized,   \* provider -> _initialized of the service object
    model_stats,   \* model -> attempts / successes / rate_limited
    semaphores,    \* model -> free slots of its asyncio.Semaphore
    last_request_times, \* model -> request times the limiter recorded
    token_limits,  \* model -> tpm / rpm budget of the limiter
    now,           \* time.time(), in seconds
    caller,        \* limiter client -> where it is in a guarded call
    fn_input,      \* arguments a function of the program is applied to
    fn_output      \* what it returned for them

vars == << batch_jobs, created, task, call, reply,
           initialized, model_stats, semaphores,
           last_request_times, token_limits, now, caller,
           fn_input, fn_output >>

pipeline_vars == << batch_jobs, created, task, call, reply, initialized, model_stats >>
limiter_vars == << last_request_times, token_limits, now, caller >>
pure_vars == << fn_input, fn_output >>

\* model_fallback_chain of each service, in order.
ModelFallbackChain ==
    [ openai |-> << "gpt-5", "gpt-4o" >>,
      gemini |-> << "models/gemini-2.5-pro", "models/gemini-2.5-flash",
                    "models/gemini-1.5-pro" >> ]

Models == UNION { { ModelFallbackChain[p][k] : k \in 1..Len(ModelFallbackChain[p]) }
                  : p \in Providers }

\* RateLimitManager.semaphores of the OpenAI service.
SemaphoreCap == [ m \in {"gpt-5", "gpt-4o"} |-> IF m = "gpt-5" THEN 2 ELSE 3 ]

\* An analysis value: a provider's text, the fallback message, or nothing yet.
Analysis(kind, model, error, items) ==
    [kind |-> kind, model |-> model, error |-> error, items |-> items]
NoAnalysis == Analysis("none", "none", "none", 0)

IdleTask == [pc |-> "none", i |-> 0, custom_items |-> 0, attempt |-> 0,
             transcribed_text |-> "none"]
IdleCall == [pc |-> "idle", model_index |-> 0, attempt |-> 0, stage |-> "none",
             result_text_p1 |-> "unbound", outcome |-> NoAnalysis]
NoReply == [op |-> "none", job_id |-> "none", result |-> "none"]

\* Clients of a RateLimitManager other than the jobs' analyze calls, and
\* the locals of one guarded call: the model, current_time and the time
\* its preemptive sleep ends.
Callers == {"c1", "c2"}
IdleCaller == [pc |-> "idle", model |-> "none", estimated_tokens |-> 0,
               current_time |-> 0, wake |-> 0, calls |-> 0,
               waited |-> FALSE, outcome |-> "none"]
Reply(op, job_id, result) == [op |-> op, job_id |-> job_id, result |-> result]

\* No function application is followed.
NoInput == [fn |-> "none"]
NoOutput == [returned |-> FALSE]
Output(value) == [returned |-> TRUE, value |-> value]

Init ==
    /\ batch_jobs = [j \in JobIds |-> NoJob]
    /\ created = [j \in JobIds |-> 0]
    /\ task = [j \in JobIds |-> IdleTask]
    /\ call = [j \in JobIds |-> IdleCall]
    /\ reply = NoReply
    /\ initialized = [p \in Providers |-> FALSE]
    /\ model_stats = [m \in Models |-> [attempts |-> 0, successes |-> 0, rate_limited |-> 0]]
    /\ semaphores = SemaphoreCap
    /\ last_request_times = [m \in DOMAIN SemaphoreCap |-> << >>]
    /\ token_limits = [m \in DOMAIN SemaphoreCap |-> [tpm |-> 30000, rpm |-> 500]]
    /\ now = 0
    /\ caller = [c \in Callers |-> IdleCaller]
    /\ fn_input = NoInput
    /\ fn_output = NoOutput

Known(job_id) == job_id \in DOMAIN batch_jobs /\ batch_jobs[job_id] # NoJob

\* ------------------------------------------ wait_for_rate_limit, in parts
\* The requests of the last RateWindow seconds are kept.
PruneWindow(times, current_time) ==
    SelectSeq(times, LAMBDA req_time : current_time - req_time < RateWindow)

\* recent_requests >= limit_info["rpm"] * 0.9
RateLimitReached(times, rpm) == 10 * Len(times) >= 9 * rpm

SeqMin(times) ==
    CHOOSE t \in { times[k] : k \in 1..Len(times) } :
        \A k \in 1..Len(times) : t <= times[k]

\* wait_time = 60 - (current_time - min(last_request_times)) + 1
RateWaitTime(times, current_time) == RateWindow - (current_time - SeqMin(times)) + 1

\* estimated_tokens > limit_info["tpm"] * 0.9: a warning is logged.
LargeRequest(estimated_tokens, tpm) == 10 * estimated_tokens > 9 * tpm

\* Variant: a large request is made to wait for a window as well.
rate_wait_throttling_tokens(times, limit_info, current_time, estimated_tokens) ==
    LET recent == PruneWindow(times, current_time)
        sleeps == /\ RateLimitReached(recent, limit_info.rpm)
                  /\ RateWaitTime(recent, current_time) > 0
    IN  [ recent |-> recent,
          wait_time |-> IF sleeps THEN RateWaitTime(recent, current_time)
                        ELSE IF LargeRequest(estimated_tokens, limit_info.tpm)
                        THEN RateWindow ELSE 0,
          warning |-> LargeRequest(estimated_tokens, limit_info.tpm) ]

\* wait_for_rate_limit for a model's request list: the list it keeps, the
\* time it sleeps (0: no sleep) and whether it logs the warning.
rate_wait(times, limit_info, current_time, estimated_tokens) ==
    LET recent == PruneWindow(times, current_time)
        sleeps == /\ RateLimitReached(recent, limit_info.rpm)
                  /\ RateWaitTime(recent, current_time) > 0
    IN  [ recent |-> recent,
          wait_time |-> IF sleeps THEN RateWaitTime(recent, current_time) ELSE 0,
          warning |-> LargeRequest(estimated_tokens, limit_info.tpm) ]

\* ------------------------------------------------------- client operations
\* uuid.uuid4(): an id no job has.
FreshJobIds == { j \in JobIds : ~Known(j) }

NewJob(frame_content, filenames, mapping, ai_provider) ==
    [ status |-> "pending_upload",
      message |-> "waiting for upload",
      frame_content |-> frame_content,
      mapping |-> mapping,
      gcs_object_names |-> DictKeys(filenames),
      ai_provider |-> ai_provider,
      total_files |-> Len(filenames),
      processed_files |-> 0,
      results |-> EmptyDict,
      errors |-> EmptyDict ]

\* Variant: the background task is created with the job.
request_batch_analysis_job_eager ==
    \E job_id \in FreshJobIds, frame_content \in FrameContents,
       filenames \in FilenameLists, mapping \in Mappings,
       ai_provider \in Providers :
        /\ batch_jobs' = [batch_jobs EXCEPT ![job_id] =
               NewJob(frame_content, filenames, mapping, ai_provider)]
        /\ reply' = Reply("submit", job_id, "ok")
        /\ created' = [created EXCEPT ![job_id] = @ + 1]
        /\ task' = [task EXCEPT ![job_id] = [IdleTask EXCEPT !.pc = "extract"]]
        /\ UNCHANGED << call, initialized, model_stats, semaphores >>
        /\ UNCHANGED << limiter_vars, pure_vars >>

request_batch_analysis_job ==
    \E job_id \in FreshJobIds, frame_content \in FrameContents,
       filenames \in FilenameLists, mapping \in Mappings,
       ai_provider \in Providers :
        /\ batch_jobs' = [batch_jobs EXCEPT ![job_id] =
               NewJob(frame_content, filenames, mapping, ai_provider)]
        /\ reply' = Reply("submit", job_id, "ok")
        /\ UNCHANGED << created, task, call, initialized, model_stats, semaphores >>
        /\ UNCHANGED << limiter_vars, pure_vars >>

\* Variant: the status is set but no task is created.
start_batch_analysis_no_task(job_id) ==
    IF ~Known(job_id)
    THEN /\ reply' = Reply("start", job_id, "not_found")
         /\ UNCHANGED << batch_jobs, created, task >>
    ELSE IF batch_jobs[job_id].status # "pending_upload"
    THEN /\ reply' = Reply("start", job_id, "already_started")
         /\ UNCHANGED << batch_jobs, created, task >>
    ELSE /\ batch_jobs' = [batch_jobs EXCEPT ![job_id].status = "processing",
                                             ![job_id].message = "processing"]
         /\ reply' = Reply("start", job_id, "ok")
         /\ UNCHANGED << created, task >>

\* Variant: only a job that is being processed is refused, so a finished
\* job can be started again.
start_batch_analysis_restartable(job_id) ==
    IF ~Known(job_id)
    THEN /\ reply' = Reply("start", job_id, "not_found")
         /\ UNCHANGED << batch_jobs, created, task >>
    ELSE IF batch_jobs[job_id].status = "processing"
    THEN /\ reply' = Reply("start", job_id, "already_started")
         /\ UNCHANGED << batch_jobs, created, task >>
    ELSE /\ batch_jobs' = [batch_jobs EXCEPT ![job_id].status = "processing",
                                             ![job_id].message = "processing"]
         /\ created' = [created EXCEPT ![job_id] = @ + 1]
         /\ task' = [task EXCEPT ![job_id] = [IdleTask EXCEPT !.pc = "extract"]]
         /\ reply' = Reply("start", job_id, "ok")

\* Variant: the status of a known job is not looked at.
start_batch_analysis_unchecked(job_id) ==
    IF ~Known(job_id)
    THEN /\ reply' = Reply("start", job_id, "not_found")
         /\ UNCHANGED << batch_jobs, created, task >>
    ELSE /\ batch_jobs' = [batch_jobs EXCEPT ![job_id].status = "processing",
                                             ![job_id].message = "processing"]
         /\ created' = [created EXCEPT ![job_id] = @ + 1]
         /\ task' = [task EXCEPT ![job_id] = [IdleTask EXCEPT !.pc = "extract"]]
         /\ reply' = Reply("start", job_id, "ok")

\* POST /request-analysis with a form the endpoint turns down before the
\* service is called (HTTP 400), or for which generate_signed_url raises
\* inside request_batch_analysis_job before the job is stored (HTTP 500).
\* json.loads gives a dict, another JSON value, or raises JSONDecodeError.
FrameFilenames == {"frame.docx", "FRAME.DOCX", "frame.pdf", ""}
TemplateTypes == {"raw", "refined", "summary"}
MappingStrings == {"json_object", "json_array", "not_json"}
SignedUrlResults == {"url", "raised"}

IsDocx(filename) == filename \in {"frame.docx", "FRAME.DOCX"}

\* Variant: the extension of the frame is compared as it is written.
SubmitForms ==
    [frame_filename : FrameFilenames, template_type : TemplateTypes,
     mapping : MappingStrings, signed_url : SignedUrlResults]

\* The HTTP status of the answer: 400 from the checks of the endpoint, 500
\* from its handler around the service call, "ok" when the job is stored.
request_analysis(form) ==
    IF ~IsDocx(form.frame_filename) THEN "400"
    ELSE IF form.template_type \notin {"raw", "refined"} THEN "400"
    ELSE IF form.mapping = "not_json" THEN "400"
    ELSE IF form.mapping # "json_object" THEN "400"
    ELSE IF form.signed_url = "raised" THEN "500"
    ELSE "ok"

\* Variant: the job is stored before the upload locators are generated.
RequestRejected_job_stored_first ==
    \E result \in { request_analysis(form) : form \in SubmitForms } \ {"ok"} :
        /\ reply' = Reply("submit", "none", result)
        /\ IF result = "500" /\ FreshJobIds # {}
           THEN \E job_id \in FreshJobIds, filenames \in FilenameLists :
                   batch_jobs' = [batch_jobs EXCEPT ![job_id] =
                       NewJob([readable |-> TRUE, items |-> 0], filenames,
                              EmptyDict, "openai")]
           ELSE UNCHANGED batch_jobs
        /\ UNCHANGED << created, task, call, initialized, model_stats, semaphores >>
        /\ UNCHANGED << limiter_vars, pure_vars >>

RequestRejected ==
    \E result \in { request_analysis(form) : form \in SubmitForms } \ {"ok"} :
        /\ reply' = Reply("submit", "none", result)
        /\ UNCHANGED << batch_jobs, created, task, call, initialized, model_stats, semaphores >>
        /\ UNCHANGED << limiter_vars, pure_vars >>

\* The state check and the transition have no await between them.
start_batch_analysis(job_id) ==
    IF ~Known(job_id)
    THEN /\ reply' = Reply("start", job_id, "not_found")
         /\ UNCHANGED << batch_jobs, created, task >>
    ELSE IF batch_jobs[job_id].status # "pending_upload"
    THEN /\ reply' = Reply("start", job_id, "already_started")
         /\ UNCHANGED << batch_jobs, created, task >>
    ELSE /\ batch_jobs' = [batch_jobs EXCEPT ![job_id].status = "processing",
                                             ![job_id].message = "processing"]
         /\ created' = [created EXCEPT ![job_id] = @ + 1]
         /\ task' = [task EXCEPT ![job_id] = [IdleTask EXCEPT !.pc = "extract"]]
         /\ reply' = Reply("start", job_id, "ok")

StartAnalysis ==
    \E job_id \in JobIds :
        /\ start_batch_analysis(job_id)
        /\ UNCHANGED << call, initialized, model_stats, semaphores >>
        /\ UNCHANGED << limiter_vars, pure_vars >>

get_batch_status(job_id) ==
    IF Known(job_id) THEN "ok" ELSE "not_found"

\* Variant: a job that has failed is handed out like a completed one.
get_batch_results_any_finished(job_id) ==
    IF ~Known(job_id) THEN "not_found"
    ELSE IF batch_jobs[job_id].status \notin {"completed", "failed"} THEN "not_ready"
    ELSE "ok"

get_batch_results(job_id) ==
    IF ~Known(job_id) THEN "not_found"
    ELSE IF batch_jobs[job_id].status # "completed" THEN "not_ready"
    ELSE "ok"

\* The ids a client asks about: those of jobs, and one no job ever has.
QueryIds == JobIds \cup {"no-such-job"}

\* A client reads the status or the results of a job: the accessor's answer
\* (the job record, or the ValueError it raises) is all that happens.
Queries ==
    \E job_id \in QueryIds, op \in {"status", "results"} :
        /\ reply' = Reply(op, job_id, IF op = "status" THEN get_batch_status(job_id)
                                      ELSE get_batch_results(job_id))
        /\ UNCHANGED << batch_jobs, created, task, call, initialized, model_stats, semaphores >>
        /\ UNCHANGED << limiter_vars, pure_vars >>

\* replace_analysis_with_parsed works on the dict it is given: an analysis
\* string in which numbered sections are found is replaced by the dict of
\* its sections, anything else is left as it is.
replace_analysis_with_parsed(results) ==
    [f \in DOMAIN results |->
        IF results[f].analysis.kind = "text_sections"
        THEN [results[f] EXCEPT !.analysis.kind = "parsed"]
        ELSE results[f]]

\* POST /download/{job_id}: get_batch_results returns the job record of
\* batch_jobs itself, which is handed to replace_analysis_with_parsed.
download_analysis_result(job_id) ==
    /\ IF get_batch_results(job_id) = "ok"
       THEN batch_jobs' = [batch_jobs EXCEPT ![job_id].results =
                               replace_analysis_with_parsed(@)]
       ELSE UNCHANGED batch_jobs
    /\ UNCHANGED << created, task, call, reply, initialized, model_stats, semaphores >>
    /\ UNCHANGED << limiter_vars, pure_vars >>

DownloadResult == \E job_id \in JobIds : download_analysis_result(job_id)

\* ------------------------------------------- background task of one job
\* The file the loop of _batch_analysis_task is at (i counts from 0).
CurrentFile(job_id) == batch_jobs[job_id].gcs_object_names[task[job_id].i + 1]

\* Variant: the counter is set to the loop index.
AfterFile_loop_index(job, i) ==
    IF i + 1 = Len(job.gcs_object_names)
    THEN [job EXCEPT !.processed_files = i,
                     !.status = "completed", !.message = "completed"]
    ELSE [job EXCEPT !.processed_files = i]

\* job_info["processed_files"] = i + 1, then the next iteration; after the
\* last file the status becomes "completed" in the same block.
AfterFile(job, i) ==
    IF i + 1 = Len(job.gcs_object_names)
    THEN [job EXCEPT !.processed_files = i + 1,
                     !.status = "completed", !.message = "completed"]
    ELSE [job EXCEPT !.processed_files = i + 1]

NextFile(t, job) ==
    IF t.i + 1 = Len(job.gcs_object_names)
    THEN [IdleTask EXCEPT !.pc = "done", !.i = t.i, !.custom_items = t.custom_items]
    ELSE [IdleTask EXCEPT !.pc = "read_url", !.i = t.i + 1,
                          !.custom_items = t.custom_items]

\* Variant: the error is filed under the first filename of the job.
FileFailed_first_key(job_id, error_msg) ==
    LET job == batch_jobs[job_id]
        t   == task[job_id]
    IN  /\ batch_jobs' = [batch_jobs EXCEPT ![job_id] =
               AfterFile([job EXCEPT !.errors =
                   Put(@, job.gcs_object_names[1], error_msg)], t.i)]
        /\ task' = [task EXCEPT ![job_id] = NextFile(t, job)]

\* Variant: no per-file handler, the exception reaches the outer handler.
FileFailed_outer_handler(job_id, error_msg) ==
    /\ batch_jobs' = [batch_jobs EXCEPT ![job_id].status = "failed",
                                        ![job_id].message = "failed"]
    /\ task' = [task EXCEPT ![job_id].pc = "done"]

\* except Exception as e: job_info["errors"][filename] = str(e)
FileFailed(job_id, error_msg) ==
    LET job == batch_jobs[job_id]
        t   == task[job_id]
    IN  /\ batch_jobs' = [batch_jobs EXCEPT ![job_id] =
               AfterFile([job EXCEPT !.errors = Put(@, CurrentFile(job_id), error_msg)], t.i)]
        /\ task' = [task EXCEPT ![job_id] = NextFile(t, job)]

FileResult(job, filename, transcribed_text, analysis) ==
    [ group |-> IF filename \in DOMAIN job.mapping
                THEN job.mapping[filename] ELSE "Unknown Group",
      transcribed_text |-> transcribed_text,
      analysis |-> analysis ]

\* job_info["results"][filename] = {...}
FileSucceeded(job_id, analysis) ==
    LET job == batch_jobs[job_id]
        t   == task[job_id]
        f   == CurrentFile(job_id)
    IN  /\ batch_jobs' = [batch_jobs EXCEPT ![job_id] =
               AfterFile([job EXCEPT !.results =
                   Put(@, f, FileResult(job, f, t.transcribed_text, analysis))], t.i)]
        /\ task' = [task EXCEPT ![job_id] = NextFile(t, job)]

\* First block of the task: the frame is parsed inside the outer try; an
\* exception there is caught by the outer handler, which fails the job.
TaskExtract(job_id) ==
    LET job == batch_jobs[job_id]
    IN  /\ task[job_id].pc = "extract"
        /\ IF ~job.frame_content.readable
           THEN /\ batch_jobs' = [batch_jobs EXCEPT ![job_id].status = "failed",
                                                    ![job_id].message = "failed"]
                /\ task' = [task EXCEPT ![job_id].pc = "done"]
           ELSE IF Len(job.gcs_object_names) = 0
           THEN /\ batch_jobs' = [batch_jobs EXCEPT ![job_id].status = "completed",
                                                    ![job_id].message = "completed"]
                /\ task' = [task EXCEPT ![job_id].pc = "done"]
           ELSE /\ task' = [task EXCEPT ![job_id].pc = "read_url",
                                        ![job_id].custom_items = job.frame_content.items]
                /\ UNCHANGED batch_jobs
        /\ UNCHANGED << created, call, reply, initialized, model_stats, semaphores >>
        /\ UNCHANGED << limiter_vars, pure_vars >>

\* generate_read_signed_url returns None when the object does not exist or
\* the storage client raises.
ReadUrls == {"none", "url"}

TaskReadUrl(job_id) ==
    /\ task[job_id].pc = "read_url"
    /\ \E audio_url \in ReadUrls :
          IF audio_url = "none"
          THEN FileFailed(job_id, "read url failed")
          ELSE /\ task' = [task EXCEPT ![job_id].pc = "request_stt"]
               /\ UNCHANGED batch_jobs
    /\ UNCHANGED << created, call, reply, initialized, model_stats, semaphores >>
    /\ UNCHANGED << limiter_vars, pure_vars >>

\* request_stt_with_audio_url raises HTTPException (no key, connection,
\* HTTP status) or returns the provider's JSON, with or without "rid".
SttSubmitResults == {"http_error", "no_rid", "rid"}

TaskRequestStt(job_id) ==
    /\ task[job_id].pc = "request_stt"
    /\ \E stt_result \in SttSubmitResults :
          CASE stt_result = "http_error" -> FileFailed(job_id, "stt request failed")
            [] stt_result = "no_rid"     -> FileFailed(job_id, "no request id")
            [] OTHER -> /\ task' = [task EXCEPT ![job_id].pc = "poll",
                                                ![job_id].attempt = 0]
                        /\ UNCHANGED batch_jobs
    /\ UNCHANGED << created, call, reply, initialized, model_stats, semaphores >>
    /\ UNCHANGED << limiter_vars, pure_vars >>

\* What one poll_stt_result gives wait_for_completion: a status of the JSON
\* body, an HTTPException (4xx, connection, no key) or the re-raised
\* httpx.HTTPStatusError of a 5xx answer.  "transcribed" yields a string
\* whether or not sttResults is empty.
PollResults == {"transcribed", "failed", "processing", "queued", "unknown",
                "http_exception", "server_error"}

\* Variant: a provider status "failed" escapes the per-file handler.
wait_for_completion_step_escaping(job_id, result) ==
    CASE result = "transcribed" ->
            /\ task' = [task EXCEPT ![job_id].pc = "analyze",
                                    ![job_id].transcribed_text = "transcript"]
            /\ UNCHANGED batch_jobs
      [] result = "failed" ->
            /\ batch_jobs' = [batch_jobs EXCEPT ![job_id].status = "failed",
                                                ![job_id].message = "failed"]
            /\ task' = [task EXCEPT ![job_id].pc = "done"]
      [] result = "http_exception" -> FileFailed(job_id, "stt poll failed")
      [] result = "server_error" -> FileFailed(job_id, "stt processing error")
      [] OTHER ->
            /\ task' = [task EXCEPT ![job_id].attempt = @ + 1]
            /\ UNCHANGED batch_jobs

\* Variant: a provider status "failed" is polled again like any other.
wait_for_completion_step_failed_polled(job_id, result) ==
    CASE result = "transcribed" ->
            /\ task' = [task EXCEPT ![job_id].pc = "analyze",
                                    ![job_id].transcribed_text = "transcript"]
            /\ UNCHANGED batch_jobs
      [] result = "http_exception" -> FileFailed(job_id, "stt poll failed")
      [] result = "server_error" -> FileFailed(job_id, "stt processing error")
      [] OTHER ->
            /\ task' = [task EXCEPT ![job_id].attempt = @ + 1]
            /\ UNCHANGED batch_jobs

\* Variant: the error of a failed transcription is recorded and the file
\* is analysed all the same.
wait_for_completion_step_failed_analyzed(job_id, result) ==
    CASE result = "transcribed" ->
            /\ task' = [task EXCEPT ![job_id].pc = "analyze",
                                    ![job_id].transcribed_text = "transcript"]
            /\ UNCHANGED batch_jobs
      [] result = "failed" ->
            /\ batch_jobs' = [batch_jobs EXCEPT ![job_id].errors =
                                  Put(@, CurrentFile(job_id), "stt failed")]
            /\ task' = [task EXCEPT ![job_id].pc = "analyze",
                                    ![job_id].transcribed_text = "transcript"]
      [] result = "http_exception" -> FileFailed(job_id, "stt poll failed")
      [] result = "server_error" -> FileFailed(job_id, "stt processing error")
      [] OTHER ->
            /\ task' = [task EXCEPT ![job_id].attempt = @ + 1]
            /\ UNCHANGED batch_jobs

wait_for_completion_step(job_id, result) ==
    CASE result = "transcribed" ->
            /\ task' = [task EXCEPT ![job_id].pc = "analyze",
                                    ![job_id].transcribed_text = "transcript"]
            /\ UNCHANGED batch_jobs
      [] result = "failed" -> FileFailed(job_id, "stt failed")
      [] result = "http_exception" -> FileFailed(job_id, "stt poll failed")
      [] result = "server_error" -> FileFailed(job_id, "stt processing error")
      [] OTHER ->
            /\ task' = [task EXCEPT ![job_id].attempt = @ + 1]
            /\ UNCHANGED batch_jobs

TaskPoll(job_id) ==
    /\ task[job_id].pc = "poll"
    /\ task[job_id].attempt < stt_max_attempts
    /\ \E result \in PollResults : wait_for_completion_step(job_id, result)
    /\ UNCHANGED << created, call, reply, initialized, model_stats, semaphores >>
    /\ UNCHANGED << limiter_vars, pure_vars >>

\* Variant: the timeout is not caught per file and fails the job.
TaskPollTimeout_fails_job(job_id) ==
    /\ task[job_id].pc = "poll"
    /\ task[job_id].attempt >= stt_max_attempts
    /\ FileFailed_outer_handler(job_id, "stt timeout")
    /\ UNCHANGED << created, call, reply, initialized, model_stats, semaphores >>
    /\ UNCHANGED << limiter_vars, pure_vars >>

\* The while loop ends: HTTPException(408).
TaskPollTimeout(job_id) ==
    /\ task[job_id].pc = "poll"
    /\ task[job_id].attempt >= stt_max_attempts
    /\ FileFailed(job_id, "stt timeout")
    /\ UNCHANGED << created, call, reply, initialized, model_stats, semaphores >>
    /\ UNCHANGED << limiter_vars, pure_vars >>

\* --------------------------------------------------- analyze_text calls
Provider(job_id) == batch_jobs[job_id].ai_provider
Chain(job_id) == ModelFallbackChain[Provider(job_id)]
ModelName(job_id) == Chain(job_id)[call[job_id].model_index]

\* Variant: the requested items are left out of the message.
generate_fallback_response_no_items(custom_items, error_msg) ==
    Analysis("fallback", "none", error_msg, 0)

\* _generate_fallback_response: the message embeds error_msg and the first
\* FallbackItemLimit requested items (none when the list is empty).
generate_fallback_response(custom_items, error_msg) ==
    Analysis("fallback", "none", error_msg, Min(custom_items, FallbackItemLimit))

Returned(c, outcome) ==
    [IdleCall EXCEPT !.pc = "returned", !.model_index = c.model_index,
                     !.outcome = outcome]

\* _initialize(): False without an API key or when the client constructor
\* raises, else the client is kept and _initialized set.
InitializeResults == {"no_api_key", "constructor_raised", "ok"}

\* Variant: the loop over the chain starts at its second model.
analyze_text_begin_second_model(job_id, initialize) ==
    LET p == Provider(job_id)
    IN  IF initialized[p] \/ initialize = "ok"
        THEN /\ initialized' = [initialized EXCEPT ![p] = TRUE]
             /\ call' = [call EXCEPT ![job_id] =
                    [IdleCall EXCEPT !.pc = "try_model", !.model_index = 2]]
        ELSE /\ call' = [call EXCEPT ![job_id] =
                    Returned(IdleCall, Analysis("raised", "none", "HTTPException 500", 0))]
             /\ UNCHANGED initialized

\* The task calls analyze_text (after the sleep between files).  The call
\* starts with the lazy client initialisation; when that fails analyze_text
\* raises HTTPException(500).
analyze_text_begin(job_id, initialize) ==
    LET p == Provider(job_id)
    IN  IF initialized[p] \/ initialize = "ok"
        THEN /\ initialized' = [initialized EXCEPT ![p] = TRUE]
             /\ call' = [call EXCEPT ![job_id] =
                    [IdleCall EXCEPT !.pc = "try_model", !.model_index = 1]]
        ELSE /\ call' = [call EXCEPT ![job_id] =
                    Returned(IdleCall, Analysis("raised", "none", "HTTPException 500", 0))]
             /\ UNCHANGED initialized

TaskAnalyze(job_id) ==
    /\ task[job_id].pc = "analyze"
    /\ call[job_id].pc = "idle"
    /\ \E initialize \in InitializeResults : analyze_text_begin(job_id, initialize)
    /\ task' = [task EXCEPT ![job_id].pc = "await_analysis"]
    /\ UNCHANGED << batch_jobs, created, reply, model_stats, semaphores >>
    /\ UNCHANGED << limiter_vars, pure_vars >>

\* _try_model_analysis up to its first await: the attempts counter.
try_model_analysis(job_id) ==
    LET m == ModelName(job_id)
    IN  /\ call[job_id].pc = "try_model"
        /\ model_stats' = [model_stats EXCEPT ![m].attempts = @ + 1]
        /\ call' = [call EXCEPT
               ![job_id].pc = IF Provider(job_id) = "openai" THEN "acquire" ELSE "request",
               ![job_id].attempt = IF Provider(job_id) = "openai" THEN 1 ELSE 0]
        /\ UNCHANGED << batch_jobs, created, task, reply, initialized, semaphores >>
        /\ UNCHANGED << limiter_vars, pure_vars >>

\* The start of one attempt of _make_api_call_with_retry: the rate wait
\* (which records the request; with the service's budget of 500 requests
\* per minute a job's few requests never make it sleep), then
\* acquire_slot_context: await semaphore.acquire().
acquire_slot(job_id) ==
    LET m == ModelName(job_id)
        recent == PruneWindow(last_request_times[m], now)
    IN  /\ call[job_id].pc = "acquire"
        /\ ~RateLimitReached(recent, token_limits[m].rpm)
        /\ semaphores[m] > 0
        /\ last_request_times' = [last_request_times EXCEPT ![m] = Append(recent, now)]
        /\ semaphores' = [semaphores EXCEPT ![m] = @ - 1]
        /\ call' = [call EXCEPT ![job_id].pc = "request", ![job_id].stage = "p1",
                                ![job_id].result_text_p1 = "unbound"]
        /\ UNCHANGED << batch_jobs, created, task, reply, initialized, model_stats >>
        /\ UNCHANGED << token_limits, now, caller, pure_vars >>

\* analyze_text after _try_model_analysis returned None: the next model of
\* the chain, or after the last one the fallback with the fixed text.
NextModelOrFallback(job_id) ==
    LET c == call[job_id]
    IN  IF c.model_index < Len(Chain(job_id))
        THEN [IdleCall EXCEPT !.pc = "try_model", !.model_index = c.model_index + 1]
        ELSE Returned(c, generate_fallback_response(task[job_id].custom_items,
                                                    "All models exhausted"))

\* is_rate_limit_error(exception)
is_rate_limit_error(error_msg) ==
    error_msg \in {"429", "rate_limit_exceeded", "tokens per min", "requests per min"}

\* What self._client.responses.create gives: an exception, or a response
\* whose output is empty, ends with a non-message item, or ends with a
\* message (status completed with text, completed with blank text, or not
\* completed).
OpenAIExceptions == {"429", "tokens per min", "requests per min", "connection error"}
OpenAIResponses == OpenAIExceptions \cup
    {"no_output", "not_message", "message_completed_text",
     "message_completed_blank", "message_incomplete"}
IsMessage(resp) ==
    resp \in {"message_completed_text", "message_completed_blank", "message_incomplete"}

\* One provider answer inside the try block of _make_api_call_with_retry:
\* what the code does next (another call, raise, return) for the call stage
\* (first half, second half, merge).
make_api_call_step(stage, result_text_p1, resp) ==
    LET go(do, error, next_stage, p1) ==
            [do |-> do, error |-> error, stage |-> next_stage, result_text_p1 |-> p1]
    IN  CASE resp \in OpenAIExceptions -> go("raise", resp, stage, result_text_p1)
          [] stage = "p1" /\ resp = "no_output" ->
                go("raise", "returned no output", stage, result_text_p1)
          [] stage = "p1" /\ IsMessage(resp) ->
                go("raise", "returned status", stage,
                   IF resp = "message_completed_text" THEN "text" ELSE result_text_p1)
          [] stage = "p1" -> go("call", "none", "p2", result_text_p1)
          [] stage = "p2" /\ IsMessage(resp) ->
                go("raise", "returned status", stage, result_text_p1)
          [] stage = "p2" ->
                IF result_text_p1 = "unbound"
                THEN go("raise", "UnboundLocalError", stage, result_text_p1)
                ELSE go("call", "none", "merge", result_text_p1)
          [] stage = "merge" /\ resp = "message_completed_text" ->
                go("return_text", "none", stage, result_text_p1)
          [] stage = "merge" /\ IsMessage(resp) ->
                go("raise", "returned status", stage, result_text_p1)
          [] OTHER -> go("return_none", "none", stage, result_text_p1)

\* Variant: an attempt that ended in a rate-limit error is not counted.
openai_response_rate_limit_uncounted(job_id, resp) ==
    LET c == call[job_id]
        m == ModelName(job_id)
        r == make_api_call_step(c.stage, c.result_text_p1, resp)
    IN  CASE r.do = "call" ->
              /\ call' = [call EXCEPT ![job_id].stage = r.stage,
                                      ![job_id].result_text_p1 = r.result_text_p1]
              /\ UNCHANGED << semaphores, model_stats >>
          [] r.do = "raise" ->
              /\ semaphores' = [semaphores EXCEPT ![m] = @ + 1]
              /\ model_stats' = [model_stats EXCEPT ![m].rate_limited =
                     IF is_rate_limit_error(r.error) THEN @ + 1 ELSE @]
              /\ call' = [call EXCEPT ![job_id] =
                     IF is_rate_limit_error(r.error)
                     THEN [IdleCall EXCEPT !.pc = "backoff", !.model_index = c.model_index,
                                           !.attempt = c.attempt]
                     ELSE IF c.attempt < OpenAIMaxAttempts
                     THEN [IdleCall EXCEPT !.pc = "backoff", !.model_index = c.model_index,
                                           !.attempt = c.attempt + 1]
                     ELSE NextModelOrFallback(job_id)]
          [] r.do = "return_text" ->
              /\ semaphores' = [semaphores EXCEPT ![m] = @ + 1]
              /\ model_stats' = [model_stats EXCEPT ![m].successes = @ + 1]
              /\ call' = [call EXCEPT ![job_id] =
                     Returned(c, Analysis("text", m, "none", 0))]
          [] OTHER ->
              /\ semaphores' = [semaphores EXCEPT ![m] = @ + 1]
              /\ call' = [call EXCEPT ![job_id] = NextModelOrFallback(job_id)]
              /\ UNCHANGED model_stats

\* A provider answer arrives for the OpenAI call in flight.  A raise runs the
\* except block (rate_limited counter), leaves the async-with block (slot
\* released) and reaches tenacity: another attempt after the wait, or
\* RetryError after the third, which _try_model_analysis catches and turns
\* into None.
openai_response_slot_kept_in_backoff(job_id, resp) ==
    LET c == call[job_id]
        m == ModelName(job_id)
        r == make_api_call_step(c.stage, c.result_text_p1, resp)
    IN  CASE r.do = "call" ->
              /\ call' = [call EXCEPT ![job_id].stage = r.stage,
                                      ![job_id].result_text_p1 = r.result_text_p1]
              /\ UNCHANGED << semaphores, model_stats >>
          [] r.do = "raise" ->
              /\ semaphores' = [semaphores EXCEPT ![m] =
                     IF c.attempt < OpenAIMaxAttempts THEN @ ELSE @ + 1]
              /\ model_stats' = [model_stats EXCEPT ![m].rate_limited =
                     IF is_rate_limit_error(r.error) THEN @ + 1 ELSE @]
              /\ call' = [call EXCEPT ![job_id] =
                     IF c.attempt < OpenAIMaxAttempts
                     THEN [IdleCall EXCEPT !.pc = "backoff", !.model_index = c.model_index,
                                           !.attempt = c.attempt + 1]
                     ELSE NextModelOrFallback(job_id)]
          [] r.do = "return_text" ->
              /\ semaphores' = [semaphores EXCEPT ![m] = @ + 1]
              /\ model_stats' = [model_stats EXCEPT ![m].successes = @ + 1]
              /\ call' = [call EXCEPT ![job_id] =
                     Returned(c, Analysis("text", m, "none", 0))]
          [] OTHER ->
              /\ semaphores' = [semaphores EXCEPT ![m] = @ + 1]
              /\ call' = [call EXCEPT ![job_id] = NextModelOrFallback(job_id)]
              /\ UNCHANGED model_stats

openai_response(job_id, resp) ==
    LET c == call[job_id]
        m == ModelName(job_id)
        r == make_api_call_step(c.stage, c.result_text_p1, resp)
    IN  CASE r.do = "call" ->
              /\ call' = [call EXCEPT ![job_id].stage = r.stage,
                                      ![job_id].result_text_p1 = r.result_text_p1]
              /\ UNCHANGED << semaphores, model_stats >>
          [] r.do = "raise" ->
              /\ semaphores' = [semaphores EXCEPT ![m] = @ + 1]
              /\ model_stats' = [model_stats EXCEPT ![m].rate_limited =
                     IF is_rate_limit_error(r.error) THEN @ + 1 ELSE @]
              /\ call' = [call EXCEPT ![job_id] =
                     IF c.attempt < OpenAIMaxAttempts
                     THEN [IdleCall EXCEPT !.pc = "backoff", !.model_index = c.model_index,
                                           !.attempt = c.attempt + 1]
                     ELSE NextModelOrFallback(job_id)]
          [] r.do = "return_text" ->
              /\ semaphores' = [semaphores EXCEPT ![m] = @ + 1]
              /\ model_stats' = [model_stats EXCEPT ![m].successes = @ + 1]
              /\ call' = [call EXCEPT ![job_id] =
                     Returned(c, Analysis("text", m, "none", 0))]
          [] OTHER ->
              /\ semaphores' = [semaphores EXCEPT ![m] = @ + 1]
              /\ call' = [call EXCEPT ![job_id] = NextModelOrFallback(job_id)]
              /\ UNCHANGED model_stats

OpenAIResponse(job_id) ==
    /\ call[job_id].pc = "request"
    /\ Provider(job_id) = "openai"
    /\ \E resp \in OpenAIResponses :
          /\ is_rate_limit_error(resp) =>
                 model_stats[ModelName(job_id)].rate_limited < MaxRateLimited
          /\ openai_response(job_id, resp)
    /\ UNCHANGED << batch_jobs, created, task, reply, initialized >>
    /\ UNCHANGED << limiter_vars, pure_vars >>

\* Variant: every retry of a model counts as an attempt.
Backoff_counts_attempt(job_id) ==
    /\ call[job_id].pc = "backoff"
    /\ call' = [call EXCEPT ![job_id].pc =
           IF Provider(job_id) = "openai" THEN "acquire" ELSE "request"]
    /\ model_stats' = [model_stats EXCEPT ![ModelName(job_id)].attempts = @ + 1]
    /\ UNCHANGED << batch_jobs, created, task, reply, initialized, semaphores >>
    /\ UNCHANGED << limiter_vars, pure_vars >>

\* The wait between two attempts ends (tenacity's sleep, or the sleeps of
\* the Gemini retry loop).
Backoff(job_id) ==
    /\ call[job_id].pc = "backoff"
    /\ call' = [call EXCEPT ![job_id].pc =
           IF Provider(job_id) = "openai" THEN "acquire" ELSE "request"]
    /\ UNCHANGED << batch_jobs, created, task, reply, initialized,
                    model_stats, semaphores >>
    /\ UNCHANGED << limiter_vars, pure_vars >>

\* What generate_content gives: an exception, no candidate, or a first
\* candidate with a finish_reason and with or without text.
GeminiExceptions == {"429 quota exceeded", "connection error"}
GeminiResponses == GeminiExceptions \cup
    {"no_candidates", "STOP_text", "STOP_sections", "STOP_empty",
     "MAX_TOKENS_text", "MAX_TOKENS_empty", "SAFETY"}

\* The text of an answer, as far as the report needs it: with or without
\* numbered "### N. title" sections (parse_analysis_sections_any).
TextKind(resp) == IF resp = "STOP_sections" THEN "text_sections" ELSE "text"

\* Variant: a STOP answer is taken as the result whether or not it has text.
gemini_attempt_step_any_stop(attempt, resp) ==
    LET last == (attempt = GeminiMaxRetries - 1)
        go(do, error) == [do |-> do, error |-> error]
    IN  CASE resp \in GeminiExceptions ->
                IF last THEN go("raise", resp) ELSE go("retry", "none")
          [] resp \in {"STOP_text", "STOP_sections", "MAX_TOKENS_text", "STOP_empty"} ->
                go("return_text", "none")
          [] OTHER -> IF last THEN go("return_none", "none") ELSE go("retry", "none")

\* One pass of the retry loop of GeminiService._try_model_analysis
\* (attempt counts from 0): return the text, raise out of the loop, go to
\* the next attempt, or leave the loop with None.
gemini_attempt_step(attempt, resp) ==
    LET last == (attempt = GeminiMaxRetries - 1)
        go(do, error) == [do |-> do, error |-> error]
    IN  CASE resp \in GeminiExceptions ->
                IF last THEN go("raise", resp) ELSE go("retry", "none")
          [] resp \in {"STOP_text", "STOP_sections", "MAX_TOKENS_text"} ->
                go("return_text", "none")
          [] resp = "STOP_empty" /\ last -> go("raise", "STOP without content")
          [] OTHER -> IF last THEN go("return_none", "none") ELSE go("retry", "none")

\* Variant: the loop over the chain does not return on a result, it goes on
\* with the next model.
gemini_response_no_return(job_id, resp) ==
    LET c == call[job_id]
        m == ModelName(job_id)
        r == gemini_attempt_step(c.attempt, resp)
    IN  CASE r.do = "return_text" ->
              /\ model_stats' = [model_stats EXCEPT ![m].successes = @ + 1]
              /\ call' = [call EXCEPT ![job_id] =
                     IF c.model_index = Len(Chain(job_id))
                     THEN Returned(c, Analysis(TextKind(resp), m, "none", 0))
                     ELSE [IdleCall EXCEPT !.pc = "try_model",
                                           !.model_index = c.model_index + 1]]
          [] r.do = "raise" ->
              /\ call' = [call EXCEPT ![job_id] =
                     IF c.model_index = Len(Chain(job_id))
                     THEN Returned(c, generate_fallback_response(
                                          task[job_id].custom_items, r.error))
                     ELSE [IdleCall EXCEPT !.pc = "try_model",
                                           !.model_index = c.model_index + 1]]
              /\ UNCHANGED model_stats
          [] r.do = "retry" ->
              /\ call' = [call EXCEPT ![job_id].pc = "backoff",
                                      ![job_id].attempt = c.attempt + 1]
              /\ UNCHANGED model_stats
          [] OTHER ->
              /\ call' = [call EXCEPT ![job_id] = NextModelOrFallback(job_id)]
              /\ UNCHANGED model_stats

\* Variant: analyze_text has no handler around _try_model_analysis after
\* the last model, the exception leaves analyze_text.
gemini_response_unhandled(job_id, resp) ==
    LET c == call[job_id]
        m == ModelName(job_id)
        r == gemini_attempt_step(c.attempt, resp)
    IN  CASE r.do = "return_text" ->
              /\ model_stats' = [model_stats EXCEPT ![m].successes = @ + 1]
              /\ call' = [call EXCEPT ![job_id] =
                     Returned(c, Analysis(TextKind(resp), m, "none", 0))]
          [] r.do = "raise" ->
              /\ call' = [call EXCEPT ![job_id] =
                     IF c.model_index = Len(Chain(job_id))
                     THEN Returned(c, Analysis("raised", "none", r.error, 0))
                     ELSE [IdleCall EXCEPT !.pc = "try_model",
                                           !.model_index = c.model_index + 1]]
              /\ UNCHANGED model_stats
          [] r.do = "retry" ->
              /\ call' = [call EXCEPT ![job_id].pc = "backoff",
                                      ![job_id].attempt = c.attempt + 1]
              /\ UNCHANGED model_stats
          [] OTHER ->
              /\ call' = [call EXCEPT ![job_id] = NextModelOrFallback(job_id)]
              /\ UNCHANGED model_stats

\* A provider answer arrives for the Gemini call in flight.  An exception
\* leaving _try_model_analysis is caught by analyze_text: the fallback with
\* str(e) after the last model, else the next model.
gemini_response(job_id, resp) ==
    LET c == call[job_id]
        m == ModelName(job_id)
        r == gemini_attempt_step(c.attempt, resp)
    IN  CASE r.do = "return_text" ->
              /\ model_stats' = [model_stats EXCEPT ![m].successes = @ + 1]
              /\ call' = [call EXCEPT ![job_id] =
                     Returned(c, Analysis(TextKind(resp), m, "none", 0))]
          [] r.do = "raise" ->
              /\ call' = [call EXCEPT ![job_id] =
                     IF c.model_index = Len(Chain(job_id))
                     THEN Returned(c, generate_fallback_response(
                                          task[job_id].custom_items, r.error))
                     ELSE [IdleCall EXCEPT !.pc = "try_model",
                                           !.model_index = c.model_index + 1]]
              /\ UNCHANGED model_stats
          [] r.do = "retry" ->
              /\ call' = [call EXCEPT ![job_id].pc = "backoff",
                                      ![job_id].attempt = c.attempt + 1]
              /\ UNCHANGED model_stats
          [] OTHER ->
              /\ call' = [call EXCEPT ![job_id] = NextModelOrFallback(job_id)]
              /\ UNCHANGED model_stats

GeminiResponse(job_id) ==
    /\ call[job_id].pc = "request"
    /\ Provider(job_id) = "gemini"
    /\ \E resp \in GeminiResponses : gemini_response(job_id, resp)
    /\ UNCHANGED << batch_jobs, created, task, reply, initialized, semaphores >>
    /\ UNCHANGED << limiter_vars, pure_vars >>

\* analyze_text returned to the task: the result is stored, or the
\* exception it raised is caught by the per-file handler.
TaskAnalysisDone(job_id) ==
    /\ task[job_id].pc = "await_analysis"
    /\ call[job_id].pc = "returned"
    /\ IF call[job_id].outcome.kind = "raised"
       THEN FileFailed(job_id, call[job_id].outcome.error)
       ELSE FileSucceeded(job_id, call[job_id].outcome)
    /\ call' = [call EXCEPT ![job_id] = IdleCall]
    /\ UNCHANGED << created, reply, initialized, model_stats, semaphores >>
    /\ UNCHANGED << limiter_vars, pure_vars >>

\* ------------------------------------- RateLimitManager and its clients
\* RateLimitManager(model_configs): _initialize_from_config makes one
\* semaphore, one request list and one budget per configured model.
ModelConfigs ==
    { [m \in {"gpt-5"} |-> [semaphore |-> 1, tpm |-> 30000, rpm |-> 2]] }

InitLimiter ==
    /\ batch_jobs = [j \in JobIds |-> NoJob]
    /\ created = [j \in JobIds |-> 0]
    /\ task = [j \in JobIds |-> IdleTask]
    /\ call = [j \in JobIds |-> IdleCall]
    /\ reply = NoReply
    /\ initialized = [p \in Providers |-> FALSE]
    /\ model_stats = [m \in Models |-> [attempts |-> 0, successes |-> 0, rate_limited |-> 0]]
    /\ \E model_configs \in ModelConfigs :
          /\ semaphores = [m \in DOMAIN model_configs |-> model_configs[m].semaphore]
          /\ last_request_times = [m \in DOMAIN model_configs |-> << >>]
          /\ token_limits = [m \in DOMAIN model_configs |->
                                [tpm |-> model_configs[m].tpm, rpm |-> model_configs[m].rpm]]
    /\ now = 0
    /\ caller = [c \in Callers |-> IdleCaller]
    /\ fn_input = NoInput
    /\ fn_output = NoOutput

\* release_slot
release_slot(slots, m) == [slots EXCEPT ![m] = @ + 1]

\* async with acquire_slot_context(m), entered: semaphore.acquire() returns
\* at once when a slot is free, else the client waits for one.
EnterSlotContext_no_wait(c, m, current_time) ==
    /\ semaphores' = [semaphores EXCEPT ![m] = @ - 1]
    /\ caller' = [caller EXCEPT ![c].pc = "in_call", ![c].model = m,
                                ![c].estimated_tokens = 0,
                                ![c].current_time = current_time]

EnterSlotContext(c, m, current_time) ==
    IF semaphores[m] > 0
    THEN /\ semaphores' = [semaphores EXCEPT ![m] = @ - 1]
         /\ caller' = [caller EXCEPT ![c].pc = "in_call", ![c].model = m,
                                     ![c].estimated_tokens = 0,
                                     ![c].current_time = current_time]
    ELSE /\ caller' = [caller EXCEPT ![c].pc = "wait_slot", ![c].model = m,
                                     ![c].estimated_tokens = 0,
                                     ![c].current_time = current_time,
                                     ![c].waited = TRUE]
         /\ UNCHANGED semaphores

\* The token counts estimate_tokens gives for a client's text: at and just
\* above 90% of the model's budget of tokens per minute.
TokenEstimates == {27000, 27001}

\* A client starts a guarded call: wait_for_rate_limit up to its sleep, or,
\* when it does not sleep, to the end (the request is recorded) and on into
\* acquire_slot_context.
wait_for_rate_limit(c, m) ==
    /\ caller[c].pc = "idle"
    /\ caller[c].calls < MaxCalls
    /\ now <= MaxTime
    /\ \E estimated_tokens \in TokenEstimates :
          LET w == rate_wait(last_request_times[m], token_limits[m], now, estimated_tokens)
          IN  IF w.wait_time > 0
              THEN /\ last_request_times' = [last_request_times EXCEPT ![m] = w.recent]
                   /\ caller' = [caller EXCEPT ![c].pc = "rate_sleep", ![c].model = m,
                                               ![c].estimated_tokens = estimated_tokens,
                                               ![c].current_time = now,
                                               ![c].wake = now + w.wait_time]
                   /\ UNCHANGED semaphores
              ELSE /\ last_request_times' = [last_request_times EXCEPT ![m] =
                                                 Append(w.recent, now)]
                   /\ EnterSlotContext(c, m, now)
    /\ UNCHANGED << pipeline_vars, pure_vars, token_limits, now >>

\* asyncio.sleep(wait_time) is over: the warning for a large estimate is
\* logged, the request is recorded with the current_time taken before the
\* sleep, then acquire_slot_context.
rate_sleep_ends(c) ==
    LET m == caller[c].model
    IN  /\ caller[c].pc = "rate_sleep"
        /\ now >= caller[c].wake
        /\ last_request_times' = [last_request_times EXCEPT ![m] =
                                      Append(@, caller[c].current_time)]
        /\ EnterSlotContext(c, m, caller[c].current_time)
        /\ UNCHANGED << pipeline_vars, pure_vars, token_limits, now >>

\* A waiting client gets the slot another one released.
acquire_slot_context(c) ==
    LET m == caller[c].model
    IN  /\ caller[c].pc = "wait_slot"
        /\ semaphores[m] > 0
        /\ semaphores' = [semaphores EXCEPT ![m] = @ - 1]
        /\ caller' = [caller EXCEPT ![c].pc = "in_call"]
        /\ UNCHANGED << pipeline_vars, pure_vars, last_request_times, token_limits, now >>

\* The guarded block is left, by return or by an exception: finally
\* release_slot.
GuardedOutcomes == {"returned", "raised"}

acquire_slot_context_exit_no_release(c) ==
    /\ caller[c].pc = "in_call"
    /\ \E outcome \in GuardedOutcomes :
          caller' = [caller EXCEPT ![c] =
              [IdleCaller EXCEPT !.outcome = outcome, !.calls = caller[c].calls + 1]]
    /\ UNCHANGED << pipeline_vars, pure_vars, semaphores, last_request_times, token_limits, now >>

acquire_slot_context_exit(c) ==
    /\ caller[c].pc = "in_call"
    /\ \E outcome \in GuardedOutcomes :
          caller' = [caller EXCEPT ![c] =
              [IdleCaller EXCEPT !.outcome = outcome, !.calls = caller[c].calls + 1]]
    /\ semaphores' = release_slot(semaphores, caller[c].model)
    /\ UNCHANGED << pipeline_vars, pure_vars, last_request_times, token_limits, now >>

\* The client's task is cancelled at the await it is suspended in: the
\* sleep of the rate wait, semaphore.acquire() (before the try of
\* acquire_slot_context) or the guarded block (inside the try).
cancel_caller_acquire_in_try(c) ==
    /\ caller[c].pc \in {"rate_sleep", "wait_slot", "in_call"}
    /\ semaphores' = IF caller[c].pc \in {"wait_slot", "in_call"}
                     THEN release_slot(semaphores, caller[c].model)
                     ELSE semaphores
    /\ caller' = [caller EXCEPT ![c] =
           [IdleCaller EXCEPT !.pc = "cancelled", !.calls = caller[c].calls]]
    /\ UNCHANGED << pipeline_vars, pure_vars, last_request_times, token_limits, now >>

CancelledIn == [pc \in {"rate_sleep", "wait_slot", "in_call"} |->
                   IF pc = "rate_sleep" THEN "cancelled_sleeping"
                   ELSE IF pc = "wait_slot" THEN "cancelled_waiting"
                   ELSE "cancelled_in_call"]

cancel_caller(c) ==
    /\ caller[c].pc \in {"rate_sleep", "wait_slot", "in_call"}
    /\ semaphores' = IF caller[c].pc = "in_call"
                     THEN release_slot(semaphores, caller[c].model)
                     ELSE semaphores
    /\ caller' = [caller EXCEPT ![c] =
           [IdleCaller EXCEPT !.pc = "cancelled", !.calls = caller[c].calls,
                              !.outcome = CancelledIn[caller[c].pc]]]
    /\ UNCHANGED << pipeline_vars, pure_vars, last_request_times, token_limits, now >>

\* Time passes: by one of a few steps, or up to the end of a sleep.
TickSteps == {20, 30}
NextTimes ==
    { now + d : d \in { e \in TickSteps : now + e <= MaxTime } }
        \cup { caller[c].wake : c \in { x \in Callers : caller[x].pc = "rate_sleep"
                                                       /\ caller[x].wake > now } }

Tick ==
    /\ \E t \in NextTimes : now' = t
    /\ UNCHANGED << pipeline_vars, pure_vars, semaphores, last_request_times, token_limits, caller >>

LimiterNext ==
    \/ \E c \in Callers : \E m \in DOMAIN semaphores : wait_for_rate_limit(c, m)
    \/ \E c \in Callers : rate_sleep_ends(c)
    \/ \E c \in Callers : acquire_slot_context(c)
    \/ \E c \in Callers : acquire_slot_context_exit(c)
    \/ \E c \in Callers : cancel_caller(c)
    \/ Tick

LimiterSpec == InitLimiter /\ [][LimiterNext]_vars

\* get_available_slots(model_name): the semaphore's _value, 0 for a model
\* without semaphore.
get_available_slots(m) == IF m \in DOMAIN semaphores THEN semaphores[m] ELSE 0

\* release_slot(model_name), called on its own: asyncio.Semaphore.release()
\* adds a slot whether or not one was acquired.
ReleaseSlot(m) ==
    /\ \E model_configs \in ModelConfigs :
          semaphores[m] < model_configs[m].semaphore + MaxSurplus
    /\ semaphores' = release_slot(semaphores, m)
    /\ UNCHANGED << pipeline_vars, pure_vars, last_request_times, token_limits, now, caller >>

\* add_model(model_name, semaphore_count, tpm, rpm) for a configured model,
\* with its configured values: a new semaphore and an empty request list
\* take the place of the old ones under the same name.  (No client is
\* waiting on the old semaphore; a client inside its guarded block will
\* release into the new one.)
add_model(m) ==
    /\ \A c \in Callers : caller[c].pc # "wait_slot"
    /\ \E model_configs \in ModelConfigs :
          /\ semaphores' = [semaphores EXCEPT ![m] = model_configs[m].semaphore]
          /\ token_limits' = [token_limits EXCEPT ![m] =
                                 [tpm |-> model_configs[m].tpm, rpm |-> model_configs[m].rpm]]
    /\ last_request_times' = [last_request_times EXCEPT ![m] = << >>]
    /\ UNCHANGED << pipeline_vars, pure_vars, now, caller >>

\* The manager with all its public operations in use.
ManagerNext ==
    \/ LimiterNext
    \/ \E m \in DOMAIN semaphores : ReleaseSlot(m)
    \/ \E m \in DOMAIN semaphores : add_model(m)

ManagerSpec == InitLimiter /\ [][ManagerNext]_vars

\* Time passes and an ended sleep resumes its client; every guarded call
\* ends; asyncio.Semaphore wakes its waiters first in, first out, so a
\* waiter is not passed over for ever when slots keep being released.
FairLimiterSpec ==
    /\ LimiterSpec
    /\ WF_vars(Tick)
    /\ \A c \in Callers :
          /\ WF_vars(rate_sleep_ends(c))
          /\ WF_vars(acquire_slot_context_exit(c))
          /\ SF_vars(acquire_slot_context(c))

\* ------------------------------------- functions, applied to their inputs
\* An exception message, as the set of the phrases looked for that occur in
\* it ("phrase" in str(exception)).
ErrorPhrases == {"429", "rate_limit_exceeded", "tokens per min", "requests per min",
                 "connection error"}
ErrorMessages == SUBSET ErrorPhrases

IsRateLimitMessage(error_msg) == \E phrase \in error_msg : is_rate_limit_error(phrase)

\* Variant: every rate-limit error waits the same time.
get_rate_limit_wait_time_flat(error_msg) == 20

\* get_rate_limit_wait_time(exception)
get_rate_limit_wait_time(error_msg) ==
    IF "tokens per min" \in error_msg THEN 60
    ELSE IF "requests per min" \in error_msg THEN 30
    ELSE 20

\* tenacity's retry_state: the number of the attempt that just ended and its
\* outcome (none yet, a returned value, or an exception with its message).
RetryStates ==
    [attempt_number : 1..MaxAttemptNumber, outcome : {"none", "returned"},
     exception : {{}}]
    \cup [attempt_number : 1..MaxAttemptNumber, outcome : {"failed"},
          exception : ErrorMessages]

\* Variant: the exponential wait has no ceiling.
custom_wait_strategy_uncapped(retry_state) ==
    IF retry_state.outcome = "failed" /\ IsRateLimitMessage(retry_state.exception)
    THEN get_rate_limit_wait_time(retry_state.exception)
    ELSE 4 * (2 ^ (retry_state.attempt_number - 1))

\* custom_wait_strategy(retry_state), in seconds
custom_wait_strategy(retry_state) ==
    IF retry_state.outcome = "failed" /\ IsRateLimitMessage(retry_state.exception)
    THEN get_rate_limit_wait_time(retry_state.exception)
    ELSE Min(60, 4 * (2 ^ (retry_state.attempt_number - 1)))

\* A text: the sequence of its units (lines, or sentences; no unit is
\* blank) and whether white space surrounds them.
Text(padded, units) == [padded |-> padded, units |-> units]
EmptyText == Text(FALSE, << >>)

\* A transcript of n units, each unit named by its place in the text.
Transcript(n) == [i \in 1..n |-> i]
Transcripts == { Text(padded, Transcript(n)) : padded \in BOOLEAN, n \in 1..MaxLines }

\* str.strip()
strip(text) == Text(FALSE, text.units)

\* '\n'.join(lines), ' '.join(sentences)
join(units) == Text(FALSE, units)

\* Variant: a short text is returned stripped.
split_transcript_with_overlap_stripped(full_transcript, overlap_lines) ==
    LET lines == strip(full_transcript).units
        mid_point == Len(lines) \div 2
        overlap_start_index == IF mid_point - overlap_lines > 0
                               THEN mid_point - overlap_lines ELSE 0
    IN  IF Len(lines) < SplitThreshold
        THEN << strip(full_transcript), EmptyText >>
        ELSE << join(SubSeq(lines, 1, mid_point)),
                join(SubSeq(lines, overlap_start_index + 1, Len(lines))) >>

\* Variant: the second part starts at the middle, without the overlap.
split_transcript_with_overlap_none(full_transcript, overlap_lines) ==
    LET lines == strip(full_transcript).units
        mid_point == Len(lines) \div 2
    IN  IF Len(lines) < SplitThreshold
        THEN << full_transcript, EmptyText >>
        ELSE << join(SubSeq(lines, 1, mid_point)),
                join(SubSeq(lines, mid_point + 1, Len(lines))) >>

\* split_transcript_with_overlap(full_transcript, overlap_lines): the two
\* parts, the second one empty for a text of fewer than SplitThreshold lines.
split_transcript_with_overlap(full_transcript, overlap_lines) ==
    LET lines == strip(full_transcript).units
        mid_point == Len(lines) \div 2
        overlap_start_index == IF mid_point - overlap_lines > 0
                               THEN mid_point - overlap_lines ELSE 0
    IN  IF Len(lines) < SplitThreshold
        THEN << full_transcript, EmptyText >>
        ELSE << join(SubSeq(lines, 1, mid_point)),
                join(SubSeq(lines, overlap_start_index + 1, Len(lines))) >>

\* Variant: the second part starts overlap_sentences after the middle.
split_transcript_overlap_after(full_transcript, overlap_sentences) ==
    LET sentences == strip(full_transcript).units
        mid_point == Len(sentences) \div 2
        overlap_start_index == Min(Len(sentences), mid_point + overlap_sentences)
    IN  IF Len(sentences) < SentenceSplitThreshold
        THEN << full_transcript, EmptyText >>
        ELSE << join(SubSeq(sentences, 1, mid_point)),
                join(SubSeq(sentences, overlap_start_index + 1, Len(sentences))) >>

\* RateLimitManager.split_transcript(full_transcript, overlap_sentences):
\* the same split, of the sentences re.split finds.
split_transcript(full_transcript, overlap_sentences) ==
    LET sentences == strip(full_transcript).units
        mid_point == Len(sentences) \div 2
        overlap_start_index == IF mid_point - overlap_sentences > 0
                               THEN mid_point - overlap_sentences ELSE 0
    IN  IF Len(sentences) < SentenceSplitThreshold
        THEN << full_transcript, EmptyText >>
        ELSE << join(SubSeq(sentences, 1, mid_point)),
                join(SubSeq(sentences, overlap_start_index + 1, Len(sentences))) >>

\* The overlaps a split is asked for: none, the default, more than a half.
Overlaps == 0..MaxOverlap

\* The answers the provider gives to the successive calls of one attempt.
ResponseScripts == [1..3 -> OpenAIResponses]

\* The provider calls one attempt of _make_api_call_with_retry issues from
\* the given stage on, each with its stage and the user content it sends,
\* for the provider's answers resps.
RECURSIVE provider_calls(_, _, _, _)
provider_calls(stage, result_text_p1, parts, resps) ==
    LET content == CASE stage = "p1" -> parts[1]
                     [] stage = "p2" -> parts[2]
                     [] OTHER -> << result_text_p1 >>
        r == make_api_call_step(stage, result_text_p1, Head(resps))
    IN  << [stage |-> stage, content |-> content] >>
        \o IF r.do = "call" /\ Len(resps) > 1
           THEN provider_calls(r.stage, r.result_text_p1, parts, Tail(resps))
           ELSE << >>

\* _make_api_call_with_retry(model_name, system_prompt, text_content), one
\* attempt: the text is split, then the calls are made.
make_api_call_with_retry(text_content, resps) ==
    provider_calls("p1", "unbound",
                   split_transcript_with_overlap(text_content, OverlapLines), resps)

FunctionInputs ==
    { [fn |-> "custom_wait_strategy", retry_state |-> retry_state] :
          retry_state \in RetryStates }
    \cup { [fn |-> "_make_api_call_with_retry", text_content |-> text_content,
            responses |-> resps] :
               text_content \in Transcripts, resps \in ResponseScripts }
    \cup { [fn |-> fn, full_transcript |-> full_transcript, overlap |-> overlap] :
               fn \in {"split_transcript_with_overlap", "split_transcript"},
               full_transcript \in Transcripts, overlap \in Overlaps }

InitPure ==
    /\ batch_jobs = [j \in JobIds |-> NoJob]
    /\ created = [j \in JobIds |-> 0]
    /\ task = [j \in JobIds |-> IdleTask]
    /\ call = [j \in JobIds |-> IdleCall]
    /\ reply = NoReply
    /\ initialized = [p \in Providers |-> FALSE]
    /\ model_stats = [m \in Models |-> [attempts |-> 0, successes |-> 0, rate_limited |-> 0]]
    /\ semaphores = SemaphoreCap
    /\ last_request_times = [m \in DOMAIN SemaphoreCap |-> << >>]
    /\ token_limits = [m \in DOMAIN SemaphoreCap |-> [tpm |-> 30000, rpm |-> 500]]
    /\ now = 0
    /\ caller = [c \in Callers |-> IdleCaller]
    /\ fn_input \in FunctionInputs
    /\ fn_output = NoOutput

\* tenacity asks the wait strategy how long to sleep before the next attempt.
ApplyCustomWaitStrategy ==
    /\ fn_input.fn = "custom_wait_strategy"
    /\ fn_output = NoOutput
    /\ fn_output' = Output(custom_wait_strategy(fn_input.retry_state))
    /\ UNCHANGED << pipeline_vars, semaphores, limiter_vars, fn_input >>

\* One attempt of the analysis call runs to its return or exception.
ApplyMakeApiCall ==
    /\ fn_input.fn = "_make_api_call_with_retry"
    /\ fn_output = NoOutput
    /\ fn_output' = Output(make_api_call_with_retry(fn_input.text_content,
                                                    fn_input.responses))
    /\ UNCHANGED << pipeline_vars, semaphores, limiter_vars, fn_input >>

\* The line split, applied to a text.
ApplySplitTranscriptWithOverlap ==
    /\ fn_input.fn = "split_transcript_with_overlap"
    /\ fn_output = NoOutput
    /\ fn_output' = Output(split_transcript_with_overlap(fn_input.full_transcript,
                                                         fn_input.overlap))
    /\ UNCHANGED << pipeline_vars, semaphores, limiter_vars, fn_input >>

\* The sentence split, applied to a text.
ApplySplitTranscript ==
    /\ fn_input.fn = "split_transcript"
    /\ fn_output = NoOutput
    /\ fn_output' = Output(split_transcript(fn_input.full_transcript, fn_input.overlap))
    /\ UNCHANGED << pipeline_vars, semaphores, limiter_vars, fn_input >>

PureNext ==
    \/ ApplyCustomWaitStrategy
    \/ ApplyMakeApiCall
    \/ ApplySplitTranscriptWithOverlap
    \/ ApplySplitTranscript

PureSpec == InitPure /\ [][PureNext]_vars

\* ------------------------------------------------------------ specification
batch_analysis_task(job_id) ==
    \/ TaskExtract(job_id)
    \/ TaskReadUrl(job_id)
    \/ TaskRequestStt(job_id)
    \/ TaskPoll(job_id)
    \/ TaskPollTimeout(job_id)
    \/ TaskAnalyze(job_id)
    \/ TaskAnalysisDone(job_id)

analyze_text(job_id) ==
    \/ try_model_analysis(job_id)
    \/ acquire_slot(job_id)
    \/ OpenAIResponse(job_id)
    \/ GeminiResponse(job_id)
    \/ Backoff(job_id)

Next ==
    \/ request_batch_analysis_job
    \/ StartAnalysis
    \/ DownloadResult
    \/ \E job_id \in JobIds : batch_analysis_task(job_id) \/ analyze_text(job_id)

Spec == Init /\ [][Next]_vars

\* The event loop runs every task that can take a step, every provider
\* call returns or fails and every sleep ends.
FairSpec ==
    Spec /\ WF_vars(\E job_id \in JobIds : batch_analysis_task(job_id) \/ analyze_text(job_id))

\* The service with the reads of the status and the results.
ReadNext ==
    \/ Next
    \/ Queries

ReadSpec == Init /\ [][ReadNext]_vars

\* The service with the submissions that are turned down.
SubmitNext ==
    \/ Next
    \/ RequestRejected

SubmitSpec == Init /\ [][SubmitNext]_vars

\* ------------------------------------------- two jobs and the shared services
\* Two jobs at a time: their tasks run on one event loop and call the same
\* OpenAIService and GeminiService objects.
ConcurrentJobIds == {"job-1", "job-2"}

InitConcurrent ==
    /\ batch_jobs = [j \in ConcurrentJobIds |-> NoJob]
    /\ created = [j \in ConcurrentJobIds |-> 0]
    /\ task = [j \in ConcurrentJobIds |-> IdleTask]
    /\ call = [j \in ConcurrentJobIds |-> IdleCall]
    /\ reply = NoReply
    /\ initialized = [p \in Providers |-> FALSE]
    /\ model_stats = [m \in Models |-> [attempts |-> 0, successes |-> 0, rate_limited |-> 0]]
    /\ semaphores = SemaphoreCap
    /\ last_request_times = [m \in DOMAIN SemaphoreCap |-> << >>]
    /\ token_limits = [m \in DOMAIN SemaphoreCap |-> [tpm |-> 30000, rpm |-> 500]]
    /\ now = 0
    /\ caller = [c \in Callers |-> IdleCaller]
    /\ fn_input = NoInput
    /\ fn_output = NoOutput

\* request_batch_analysis_job for one audio file and a frame without items.
RequestOneFileJob(job_id) ==
    /\ ~Known(job_id)
    /\ \E ai_provider \in Providers, mapping \in Mappings :
          batch_jobs' = [batch_jobs EXCEPT ![job_id] =
              NewJob([readable |-> TRUE, items |-> 0], << "file1" >>, mapping, ai_provider)]
    /\ reply' = Reply("submit", job_id, "ok")
    /\ UNCHANGED << created, task, call, initialized, model_stats, semaphores >>
    /\ UNCHANGED << limiter_vars, pure_vars >>

\* start_batch_analysis for a job waiting for its upload.
StartUploadedJob(job_id) ==
    /\ Known(job_id)
    /\ batch_jobs[job_id].status = "pending_upload"
    /\ start_batch_analysis(job_id)
    /\ UNCHANGED << call, initialized, model_stats, semaphores >>
    /\ UNCHANGED << limiter_vars, pure_vars >>

ConcurrentNext ==
    \E job_id \in ConcurrentJobIds :
        \/ RequestOneFileJob(job_id)
        \/ StartUploadedJob(job_id)
        \/ batch_analysis_task(job_id)
        \/ analyze_text(job_id)

ConcurrentSpec == InitConcurrent /\ [][ConcurrentNext]_vars

\* -------------------------------------------------------------- properties
Job(job_id) == batch_jobs[job_id]
Files(job_id) == { Job(job_id).gcs_object_names[k] :
                       k \in 1..Len(Job(job_id).gcs_object_names) }
Outcomes(job_id) == (DOMAIN Job(job_id).results) \cup (DOMAIN Job(job_id).errors)

\* C1: the status of a job only moves forward, one step at a time, along
\* (no job) -> pending_upload -> processing -> completed or failed; a
\* completed or failed job keeps its status for ever.
StatusSteps ==
    { << "absent", "pending_upload" >>, << "pending_upload", "processing" >>,
      << "processing", "completed" >>, << "processing", "failed" >> }

C1_StatusOnlyForward ==
    [][ \A j \in JobIds :
          \/ batch_jobs'[j].status = batch_jobs[j].status
          \/ << batch_jobs[j].status, batch_jobs'[j].status >> \in StatusSteps ]_vars

\* A start request arrived for a job that had completed, and it is still
\* completed.
C1_Witness ==
    \E j \in JobIds :
        /\ Known(j) /\ Job(j).status = "completed"
        /\ reply = Reply("start", j, "already_started")

\* C2: at most one background task is ever created for a job; a task is
\* created only by the start request that moves the job from pending_upload
\* to processing and answers ok; every other start request answers with an
\* error (not_found exactly for an unknown id) and changes neither the job
\* store nor any task.
C2_StartOnce ==
    /\ [](\A j \in JobIds : created[j] <= 1)
    /\ [][ \A j \in JobIds :
             /\ (created'[j] # created[j] \/
                 (Known(j) /\ Job(j).status = "pending_upload"
                           /\ batch_jobs'[j].status # "pending_upload"))
                => /\ Known(j) /\ Job(j).status = "pending_upload"
                   /\ batch_jobs'[j].status = "processing"
                   /\ created'[j] = created[j] + 1
                   /\ reply' = Reply("start", j, "ok")
             /\ (reply' # reply /\ reply'.op = "start" /\ reply'.job_id = j
                                /\ reply'.result # "ok")
                => /\ UNCHANGED << batch_jobs, created, task, call >>
                   /\ (reply'.result = "not_found" <=> ~Known(j))
                   /\ (reply'.result = "already_started" <=> Known(j)) ]_vars

\* A second start request was refused while the only task of the job runs.
C2_Witness ==
    \E j \in JobIds :
        /\ created[j] = 1
        /\ task[j].pc \notin {"none", "done"}
        /\ reply = Reply("start", j, "already_started")

\* C3: no filename is a key of both results and errors, and every key of
\* either is one of the job's filenames.
C3_OutcomeKeys ==
    \A j \in JobIds :
        Known(j) =>
            /\ (DOMAIN Job(j).results) \cap (DOMAIN Job(j).errors) = {}
            /\ Outcomes(j) \subseteq Files(j)

\* A job holding a result for one file and an error for another.
C3_Witness ==
    \E j \in JobIds :
        /\ Known(j)
        /\ DOMAIN Job(j).results # {}
        /\ DOMAIN Job(j).errors # {}

\* C4: processed_files never decreases, never exceeds total_files, and is
\* the number of files with a recorded result or error.
C4_ProcessedCount ==
    /\ [](\A j \in JobIds :
            Known(j) =>
              /\ Job(j).processed_files <= Job(j).total_files
              /\ Job(j).processed_files = Cardinality(DOMAIN Job(j).results)
                                          + Cardinality(DOMAIN Job(j).errors))
    /\ [][ \A j \in JobIds :
             Known(j) => batch_jobs'[j].processed_files >= Job(j).processed_files ]_vars

\* Two files done, one with a result and one with an error, a third to go.
C4_Witness ==
    \E j \in JobIds :
        /\ Known(j)
        /\ Job(j).processed_files = 2
        /\ Cardinality(DOMAIN Job(j).results) = 1
        /\ Cardinality(DOMAIN Job(j).errors) = 1
        /\ Job(j).status = "processing"

\* C5: whenever a job is completed every file has been attempted:
\* processed_files = total_files, and the keys of results and errors
\* together are the job's filenames.
C5_CompletedAllAttempted ==
    \A j \in JobIds :
        (Known(j) /\ Job(j).status = "completed") =>
            /\ Job(j).processed_files = Job(j).total_files
            /\ Outcomes(j) = Files(j)

\* C6: a storage or transcription failure of one file adds an entry to
\* errors under that file only and touches nothing else: results and the
\* other errors stay as they are, processed_files counts the file, the job
\* does not fail, and the loop goes on with the next file or, after the
\* last one, completes the job with processed_files = number of files.
SttStorageErrors ==
    {"read url failed", "stt request failed", "no request id", "stt failed",
     "stt poll failed", "stt processing error", "stt timeout"}

C6_FileFailureIsolated ==
    [][ \A j \in JobIds :
          (Known(j) /\ task[j].pc \in {"read_url", "request_stt", "poll"}
                    /\ batch_jobs'[j] # batch_jobs[j]) =>
            LET f == CurrentFile(j)
                n == Len(Job(j).gcs_object_names)
            IN  /\ \E e \in SttStorageErrors :
                       batch_jobs'[j].errors = Put(Job(j).errors, f, e)
                /\ f \notin DOMAIN Job(j).errors
                /\ batch_jobs'[j].results = Job(j).results
                /\ batch_jobs'[j].processed_files = Job(j).processed_files + 1
                /\ IF task[j].i + 1 < n
                   THEN /\ batch_jobs'[j].status = "processing"
                        /\ task'[j].pc = "read_url"
                        /\ task'[j].i = task[j].i + 1
                   ELSE /\ batch_jobs'[j].status = "completed"
                        /\ batch_jobs'[j].processed_files = n
                        /\ task'[j].pc = "done" ]_vars

\* Three files, the second timed out while polling: it is the only error,
\* the other two have results, all three are counted, the job completed.
C6_Witness ==
    \E j \in JobIds :
        /\ Known(j)
        /\ Job(j).gcs_object_names = FileOrder
        /\ DOMAIN Job(j).errors = {"file2"}
        /\ Job(j).errors["file2"] = "stt timeout"
        /\ DOMAIN Job(j).results = {"file1", "file3"}
        /\ Job(j).processed_files = 3
        /\ Job(j).status = "completed"

\* C7: a job becomes failed only in the first block of its task, when the
\* template cannot be parsed; no step of a file's read-url, submit, polling
\* or analysis does it.
C7_FailedOnlyFromBookkeeping ==
    [][ \A j \in JobIds :
          (batch_jobs'[j].status = "failed" /\ batch_jobs[j].status # "failed") =>
              /\ task[j].pc = "extract"
              /\ ~Job(j).frame_content.readable
              /\ Outcomes(j) = {} ]_vars

\* A job whose template could not be parsed failed before any file.
C7_Witness ==
    \E j \in JobIds :
        /\ Known(j)
        /\ Job(j).status = "failed"
        /\ task[j].pc = "done"
        /\ ~Job(j).frame_content.readable

AttemptError(j, resp) ==
    IF Provider(j) = "openai"
    THEN LET r == make_api_call_step(call[j].stage, call[j].result_text_p1, resp)
         IN  IF r.do = "raise" THEN r.error ELSE "none"
    ELSE LET r == gemini_attempt_step(call[j].attempt, resp)
         IN  IF r.do = "raise" THEN r.error ELSE "none"

ProviderResponses(j) ==
    IF Provider(j) = "openai" THEN OpenAIResponses ELSE GeminiResponses

ResponseStep(j, resp) ==
    IF Provider(j) = "openai" THEN resp \in OpenAIResponses /\ openai_response(j, resp)
    ELSE resp \in GeminiResponses /\ gemini_response(j, resp)

C10_LastErrorInFallback ==
    [][ \A j \in JobIds : \A resp \in OpenAIResponses \cup GeminiResponses :
          (/\ Known(j) /\ call[j].pc = "request"
           /\ AttemptError(j, resp) # "none"
           /\ ResponseStep(j, resp)
           /\ call'[j].pc = "returned"
           /\ call'[j].outcome.kind = "fallback")
          => call'[j].outcome.error = AttemptError(j, resp) ]_vars

\* C11: in the two-model chain, a provider call to the second model that
\* completes normally with non-empty text never fails the attempt: the
\* call goes on with its next sub-call or analyze_text returns that
\* model's text and counts one success for it, and the first model's
\* successes stay as they are.
C11_SecondModelResult ==
    [][ \A j \in JobIds :
          (/\ Known(j) /\ call[j].pc = "request"
           /\ Len(Chain(j)) = 2 /\ call[j].model_index = 2
           /\ ResponseStep(j, "message_completed_text"))
          => /\ \/ call'[j].pc = "request" /\ call'[j].model_index = 2
                \/ /\ call'[j].pc = "returned"
                   /\ call'[j].outcome.kind = "text"
                   /\ call'[j].outcome.model = Chain(j)[2]
                   /\ model_stats'[Chain(j)[2]].successes
                          = model_stats[Chain(j)[2]].successes + 1
             /\ model_stats'[Chain(j)[1]].successes
                    = model_stats[Chain(j)[1]].successes ]_vars

\* C12: within one analyze_text call the model index only moves to the
\* next model of the chain, and only from the last attempt on the current
\* model; successes are counted only by the step that returns that model's
\* text, one counter by one; once the call has returned no model is tried.
AttemptCap(j) ==
    IF Provider(j) = "openai" THEN OpenAIMaxAttempts ELSE GeminiMaxRetries - 1

C12_ChainOrder ==
    [][ \A j \in JobIds :
          Known(j) =>
            /\ (call[j].model_index > 0 /\ call'[j].model_index # call[j].model_index
                   /\ call'[j].pc # "idle")
               => /\ call'[j].model_index = call[j].model_index + 1
                  /\ call[j].pc = "request"
                  /\ call[j].attempt = AttemptCap(j)
                  /\ call'[j].pc = "try_model"
            /\ (model_stats'  # model_stats /\ call[j].pc = "request"
                   /\ \E m \in Models : model_stats'[m].successes # model_stats[m].successes)
               => /\ call'[j].pc = "returned"
                  /\ call'[j].outcome \in
                         { Analysis(k, ModelName(j), "none", 0) : k \in {"text", "text_sections"} }
                  /\ model_stats' = [model_stats EXCEPT ![ModelName(j)].successes = @ + 1]
            /\ call[j].pc = "returned"
               => /\ call'[j].pc \in {"returned", "idle"}
                  /\ model_stats' = model_stats ]_vars

\* The second model of a chain returned its text after the first failed.
C12_Witness ==
    \E j \in JobIds :
        /\ call[j].pc = "returned"
        /\ call[j].model_index = 2
        /\ call[j].outcome.kind = "text"
        /\ model_stats[Chain(j)[1]].attempts = 1
        /\ model_stats[Chain(j)[1]].successes = 0
        /\ model_stats[Chain(j)[2]].successes = 1

\* C13: analyze_text returns a provider's text only for an answer with a
\* normal completion status and non-empty text; any other answer of a
\* provider call is followed by a retry while attempts remain and by the
\* next model (the fallback after the last model) once they are used up.
CompletedWithText ==
    {"message_completed_text", "STOP_text", "STOP_sections", "MAX_TOKENS_text"}

Escalated(j) ==
    IF call[j].model_index < Len(Chain(j))
    THEN call'[j].pc = "try_model" /\ call'[j].model_index = call[j].model_index + 1
    ELSE call'[j].pc = "returned" /\ call'[j].outcome.kind = "fallback"

C13_OnlyCompletedText ==
    [][ \A j \in JobIds :
          (Known(j) /\ call[j].pc = "request" /\ call'[j] # call[j]) =>
            /\ \/ /\ call'[j].pc = "returned"
                  /\ call'[j].outcome.kind \in {"text", "text_sections"}
                  /\ \A resp \in ProviderResponses(j) \ CompletedWithText :
                         ~ResponseStep(j, resp)
               \/ /\ Provider(j) = "openai" /\ call[j].stage = "p1"
                  /\ call'[j].pc = "request" /\ call'[j].stage = "p2"
                  /\ call'[j].result_text_p1 = "unbound"
               \/ /\ call[j].attempt < AttemptCap(j)
                  /\ call'[j].pc = "backoff"
                  /\ call'[j].attempt = call[j].attempt + 1
                  /\ call'[j].model_index = call[j].model_index
               \/ /\ call[j].attempt = AttemptCap(j)
                  /\ Escalated(j)
            /\ (Provider(j) = "openai" /\ call[j].stage = "p2")
               => call'[j].pc \in {"backoff", "try_model", "returned"} ]_vars

\* The last model of the chain returned its text after the models before
\* it had used up their attempts.
C13_Witness ==
    \E j \in JobIds :
        /\ call[j].pc = "returned"
        /\ call[j].outcome.kind = "text"
        /\ call[j].model_index = 3
        /\ \A k \in 1..3 : model_stats[Chain(j)[k]].attempts = 1

\* C16: a provider call is in flight only while its task holds a permit
\* of the model's semaphore.
C16_CallHoldsPermit ==
    \A j \in JobIds :
        (Known(j) /\ call[j].pc = "request") =>
            /\ ModelName(j) \in DOMAIN semaphores
            /\ semaphores[ModelName(j)] < SemaphoreCap[ModelName(j)]

\* C20: an entry of results, once set, is never removed and its group,
\* transcript and analysis never change, whatever runs later.
C20_ResultsWrittenOnce ==
    [][ \A j \in JobIds :
          Known(j) =>
            \A f \in DOMAIN Job(j).results :
                /\ f \in DOMAIN batch_jobs'[j].results
                /\ batch_jobs'[j].results[f] = Job(j).results[f] ]_vars

\* C19: every job that is being processed eventually is completed or
\* failed.
C19_StartedJobsFinish ==
    \A j \in JobIds :
        (Known(j) /\ Job(j).status = "processing")
            ~> (Known(j) /\ Job(j).status \in {"completed", "failed"})

\* A job completed although one file failed and, for another, every model
\* of the chain was exhausted after rate-limit errors.
C19_Witness ==
    \E j \in JobIds :
        /\ Known(j)
        /\ Job(j).status = "completed"
        /\ DOMAIN Job(j).errors # {}
        /\ \E f \in DOMAIN Job(j).results : Job(j).results[f].analysis.kind = "fallback"
        /\ \E m \in Models : model_stats[m].rate_limited > 0

\* ------------------------------------------------- properties of the limiter
\* The configured concurrency limit of a model.
ConfiguredCap(m) == (CHOOSE model_configs \in ModelConfigs : TRUE)[m].semaphore

\* Clients inside the guarded block of acquire_slot_context(m).
InFlight(m) == { c \in Callers : caller[c].pc = "in_call" /\ caller[c].model = m }

\* C14: with concurrent clients whose guarded calls return, raise or are
\* cancelled, the free slots of every model stay within 0..cap.
C14_SlotsWithinCap ==
    \A m \in DOMAIN semaphores : semaphores[m] \in 0..ConfiguredCap(m)

\* C14 witness: all slots of a model are taken, one client is in its guarded
\* call and another one waits for a slot, after a guarded call has raised.
C14_Witness ==
    \E m \in DOMAIN semaphores : \E c, d \in Callers :
        /\ semaphores[m] = 0
        /\ caller[c].pc = "in_call" /\ caller[c].model = m
        /\ caller[d].pc = "wait_slot" /\ caller[d].model = m
        /\ caller[d].calls > 0

\* C15: leaving the guarded block, by return, exception or cancellation,
\* gives back exactly one slot; a cancellation during the rate wait or
\* while waiting for a slot gives back none; the free slots are always the
\* cap minus the calls in flight, so the cap when none is.
C15_ReleasedExactlyOnce ==
    [][ /\ \A c \in Callers :
             /\ caller[c].pc = "in_call" /\ caller'[c].pc # "in_call"
                    => semaphores' = release_slot(semaphores, caller[c].model)
             /\ caller[c].pc \in {"rate_sleep", "wait_slot"} /\ caller'[c].pc = "cancelled"
                    => semaphores' = semaphores
        /\ \A m \in DOMAIN semaphores :
             /\ semaphores[m] = ConfiguredCap(m) - Cardinality(InFlight(m))
             /\ semaphores'[m] = ConfiguredCap(m) - Cardinality(InFlight(m)') ]_vars

\* C15 witness: one client was cancelled while waiting for a slot, the
\* other one's guarded call has raised, nothing is in flight and every
\* slot is free.
C15_Witness ==
    \E c, d \in Callers :
        /\ caller[c].outcome = "cancelled_waiting"
        /\ caller[d].outcome = "raised"
        /\ \A m \in DOMAIN semaphores :
              InFlight(m) = {} /\ semaphores[m] = ConfiguredCap(m)

\* A step in which client c passes the rate wait and records its request.
RecordsRequest(c) ==
    /\ caller[c].pc \in {"idle", "rate_sleep"}
    /\ caller'[c].pc \in {"wait_slot", "in_call"}

\* Requests recorded for the model in the trailing window, the new one not
\* counted.
RecordedInWindow(m) == PruneWindow(last_request_times[m], now)

\* C17: a client records its request only when the requests recorded for
\* the model in the trailing 60 seconds are below 90% of the model's
\* requests-per-minute budget, also after it slept in the rate wait.
C17_RecordsBelowThreshold ==
    [][ \A c \in Callers :
            RecordsRequest(c)
                => ~RateLimitReached(RecordedInWindow(caller'[c].model),
                                     token_limits[caller'[c].model].rpm) ]_vars

\* C18: a sleep of the rate wait lasts at most until the oldest request of
\* the window has expired (one second of margin included) and ends; a
\* client waiting for a slot gets one, or is cancelled, when every guarded
\* call ends.
C18_NeverBlocksForever ==
    /\ [](\A c \in Callers :
            caller[c].pc = "rate_sleep"
                => caller[c].wake - caller[c].current_time \in 1..(RateWindow + 1))
    /\ \A c \in Callers :
          /\ (caller[c].pc = "rate_sleep") ~> (caller[c].pc # "rate_sleep")
          /\ (caller[c].pc = "wait_slot") ~> (caller[c].pc \in {"in_call", "cancelled"})

\* C18 witness: a client that slept in the rate wait and then had to wait
\* for a slot is in its guarded call.
C18_Witness ==
    \E c \in Callers :
        /\ caller[c].pc = "in_call"
        /\ caller[c].wake > 0
        /\ caller[c].waited

\* --------------------------------------------------- properties, continued
\* C21: the results accessor answers with the job exactly when the job is
\* completed and with "not ready" for a job in any other status; both
\* accessors answer "not found" exactly for an id no job has, the status
\* accessor answers with the job otherwise; a read changes no job, task or
\* call.
C21_ReadAccessors ==
    [][ \A j \in QueryIds :
            (reply' # reply /\ reply'.op \in {"status", "results"} /\ reply'.job_id = j)
                => /\ UNCHANGED << batch_jobs, created, task, call >>
                   /\ (reply'.result = "not_found") <=> ~Known(j)
                   /\ reply'.op = "status" /\ Known(j) => reply'.result = "ok"
                   /\ reply'.op = "results"
                         => /\ (reply'.result = "ok")
                                  <=> (Known(j) /\ batch_jobs[j].status = "completed")
                            /\ (reply'.result = "not_ready")
                                  <=> (Known(j) /\ batch_jobs[j].status \in
                                          {"pending_upload", "processing", "failed"}) ]_vars

\* C21 witness: the results of a failed job were asked for and refused as
\* not ready.
C21_Witness ==
    \E j \in JobIds :
        /\ Known(j) /\ batch_jobs[j].status = "failed"
        /\ reply = Reply("results", j, "not_ready")

\* C22: from the submission until the start request a job stays
\* pending_upload and nothing is done for it: no task exists, no analyze
\* call is open, no model has been tried, processed_files is 0 and results
\* and errors are empty.
C22_PendingUntilStart ==
    \A j \in JobIds :
        (Known(j) /\ Job(j).status = "pending_upload")
            => /\ created[j] = 0
               /\ task[j] = IdleTask
               /\ call[j] = IdleCall
               /\ \A m \in Models : model_stats[m].attempts = 0
               /\ Job(j).processed_files = 0
               /\ Job(j).results = EmptyDict
               /\ Job(j).errors = EmptyDict

\* C22 witness: a job with several files has been submitted and not yet
\* started.
C22_Witness ==
    \E j \in JobIds :
        /\ Known(j) /\ Job(j).status = "pending_upload"
        /\ Len(Job(j).gcs_object_names) > 1
        /\ reply = Reply("submit", j, "ok")

\* C23: a submission that is turned down, by the checks of the endpoint or
\* because an upload locator could not be generated, leaves the job store
\* as it was and starts nothing.
C23_RejectedSubmitNoJob ==
    [][ (reply' # reply /\ reply'.op = "submit" /\ reply'.result # "ok")
            => UNCHANGED << batch_jobs, created, task, call >> ]_vars

\* C23 witness: a submission failed on its upload locators while an earlier
\* job is being processed.
C23_Witness ==
    /\ reply = Reply("submit", "none", "500")
    /\ \E j \in JobIds : Known(j) /\ Job(j).status = "processing"

\* The attempt an analyze call is at on its current model, counted from 1,
\* and the attempts one model may get.
AttemptNumber(j) ==
    IF Provider(j) = "openai" THEN call[j].attempt ELSE call[j].attempt + 1
AttemptsPerModel(j) ==
    IF Provider(j) = "openai" THEN OpenAIMaxAttempts ELSE GeminiMaxRetries
InAttempt(c) == c.pc \in {"acquire", "request", "backoff"}

\* C24: within one analyze call a model never gets more than its cap of
\* attempts (3 on the OpenAI chain, 2 on the Gemini chain), whatever the
\* provider answers, rate-limit errors included: every further attempt on
\* a model raises the attempt number by one, the number never passes the
\* cap, and so the attempts of the call never pass chain length times cap.
C24_AttemptsCapped ==
    /\ [](\A j \in JobIds :
            (Known(j) /\ InAttempt(call[j]))
                => /\ call[j].model_index \in 1..Len(Chain(j))
                   /\ AttemptNumber(j) \in 1..AttemptsPerModel(j)
                   /\ (call[j].model_index - 1) * AttemptsPerModel(j) + AttemptNumber(j)
                          <= Len(Chain(j)) * AttemptsPerModel(j))
    /\ [][ \A j \in JobIds :
             (Known(j) /\ call[j].pc = "request" /\ InAttempt(call'[j])
                       /\ call'[j].pc # "request")
                => /\ call'[j].pc = "backoff"
                   /\ call'[j].model_index = call[j].model_index
                   /\ call'[j].attempt = call[j].attempt + 1 ]_vars

\* C24 witness: the last attempt on the last model of the OpenAI chain is
\* in flight after that model answered twice with a rate-limit error.
C24_Witness ==
    \E j \in JobIds :
        /\ Known(j) /\ Provider(j) = "openai"
        /\ call[j].pc = "request"
        /\ call[j].model_index = Len(Chain(j))
        /\ AttemptNumber(j) = AttemptsPerModel(j)
        /\ model_stats[ModelName(j)].rate_limited > 1

\* C25: wait_for_completion polls at most stt_max_attempts times for one
\* request id; when none of the polls gave a terminal status it ends with
\* a timeout, which becomes the error of that file alone: the other
\* outcomes stay, the job does not fail and goes on with the next file.
C25_PollingBounded ==
    /\ [](\A j \in JobIds :
            task[j].pc = "poll" => task[j].attempt \in 0..stt_max_attempts)
    /\ [][ \A j \in JobIds :
             (task[j].pc = "poll" /\ task[j].attempt >= stt_max_attempts
                                 /\ task'[j] # task[j])
                => /\ batch_jobs'[j].errors = Put(Job(j).errors, CurrentFile(j), "stt timeout")
                   /\ batch_jobs'[j].results = Job(j).results
                   /\ batch_jobs'[j].processed_files = task[j].i + 1
                   /\ batch_jobs'[j].status \in {"processing", "completed"}
                   /\ task'[j].pc = IF task[j].i + 1 < Len(Job(j).gcs_object_names)
                                    THEN "read_url" ELSE "done" ]_vars

\* C25 witness: the first file of a job timed out in polling and a later
\* file has its result.
C25_Witness ==
    \E j \in JobIds :
        /\ Known(j)
        /\ \E f \in DOMAIN Job(j).errors : Job(j).errors[f] = "stt timeout"
        /\ DOMAIN Job(j).results # {}
        /\ Job(j).status = "completed"

\* The statuses a poll can report, and a step of the task that is the
\* handling of one poll answer.
PollStatuses == PollResults \ {"http_exception", "server_error"}
PollStep(j, result) ==
    /\ task[j].pc = "poll"
    /\ task[j].attempt < stt_max_attempts
    /\ task'[j] # task[j]
    /\ wait_for_completion_step(j, result)

\* C26: the first poll answer with status transcribed ends the polling
\* with the transcript, the first with status failed ends it with an
\* error for the file, and any other status is followed by one more poll
\* (up to the cap); after a terminal answer no poll follows for that
\* request.
C26_PollingStopsAtTerminal ==
    [][ \A j \in JobIds : \A result \in PollStatuses :
            PollStep(j, result)
                => CASE result = "transcribed" ->
                          /\ task'[j].pc = "analyze"
                          /\ task'[j].transcribed_text # "none"
                          /\ batch_jobs' = batch_jobs
                     [] result = "failed" ->
                          /\ task'[j].pc \in {"read_url", "done"}
                          /\ CurrentFile(j) \in DOMAIN batch_jobs'[j].errors
                          /\ CurrentFile(j) \notin DOMAIN batch_jobs'[j].results
                     [] OTHER ->
                          /\ task'[j].pc = "poll"
                          /\ task'[j].attempt = task[j].attempt + 1
                          /\ batch_jobs' = batch_jobs ]_vars

\* C26 witness: a poll answered transcribed after an earlier poll of the
\* same request had answered with a non-terminal status.
C26_Witness ==
    \E j \in JobIds :
        /\ task[j].pc = "analyze"
        /\ task[j].attempt > 0
        /\ task[j].transcribed_text # "none"

\* ------------------------------------------------ properties of functions
\* The wait strategy has been applied to a retry state.
WaitApplied == fn_input.fn = "custom_wait_strategy" /\ fn_output.returned
RateLimitFailure(retry_state) ==
    retry_state.outcome = "failed" /\ IsRateLimitMessage(retry_state.exception)

\* C27, as stated: for every attempt number, a rate-limit error whose
\* message contains "requests per min" is waited for exactly 30 seconds.
C27_RequestsPerMinWait30 ==
    (WaitApplied /\ fn_input.retry_state.outcome = "failed"
                 /\ "requests per min" \in fn_input.retry_state.exception)
        => fn_output.value = 30

\* C27, amended: for every attempt number, a rate-limit error whose message
\* contains "requests per min" and not "tokens per min" is waited for
\* exactly 30 seconds; one that contains "tokens per min" is waited for 60.
C27_RequestsPerMinWithoutTokens ==
    (WaitApplied /\ fn_input.retry_state.outcome = "failed"
                 /\ "requests per min" \in fn_input.retry_state.exception)
        => fn_output.value = IF "tokens per min" \in fn_input.retry_state.exception
                       THEN 60 ELSE 30

\* C27 witness: the wait was computed for a late attempt that failed with a
\* message naming requests per min only.
C27_Witness ==
    /\ WaitApplied
    /\ fn_input.retry_state.outcome = "failed"
    /\ fn_input.retry_state.exception = {"429", "requests per min"}
    /\ fn_input.retry_state.attempt_number > 2
    /\ fn_output.value = 30

\* C28: when the attempt did not end in a rate-limit error, the wait after
\* attempt n is min(60, 4 * 2^(n-1)) seconds: at least 4, at most 60 and
\* not shorter than the wait after attempt n-1.
C28_ExponentialBackoff ==
    (WaitApplied /\ ~RateLimitFailure(fn_input.retry_state))
        => LET n == fn_input.retry_state.attempt_number
           IN  /\ fn_output.value = Min(60, 4 * (2 ^ (n - 1)))
               /\ fn_output.value >= 4
               /\ fn_output.value <= 60
               /\ n > 1 => fn_output.value >= custom_wait_strategy(
                                [fn_input.retry_state EXCEPT !.attempt_number = n - 1])

\* C28 witness: the wait after a late attempt that failed with a connection
\* error is the ceiling.
C28_Witness ==
    /\ WaitApplied
    /\ fn_input.retry_state.outcome = "failed"
    /\ fn_input.retry_state.exception = {"connection error"}
    /\ fn_input.retry_state.attempt_number > 4
    /\ fn_output.value = 60

\* ------------------------------------- properties of the limiter, continued
\* A step in which client c enters wait_for_rate_limit.
StartsRateWait(c) == caller[c].pc = "idle" /\ caller'[c].pc # "idle"

\* C29: what a call of the rate wait does (the list it leaves, whether and
\* how long it sleeps, the slot it takes) is what it would have done for
\* any other token estimate, below or above 90% of the budget of tokens
\* per minute.
C29_TokensNeverThrottle ==
    [][ \A c \in Callers :
            StartsRateWait(c)
                => \A estimated_tokens \in TokenEstimates :
                     LET m == caller'[c].model
                         w == rate_wait(last_request_times[m], token_limits[m], now,
                                        estimated_tokens)
                     IN  /\ (caller'[c].pc = "rate_sleep") <=> (w.wait_time > 0)
                         /\ caller'[c].pc = "rate_sleep"
                               => /\ caller'[c].wake = now + w.wait_time
                                  /\ last_request_times'[m] = w.recent
                                  /\ semaphores' = semaphores
                         /\ caller'[c].pc # "rate_sleep"
                               => /\ last_request_times'[m] = Append(w.recent, now)
                                  /\ caller'[c].pc =
                                        IF semaphores[m] > 0 THEN "in_call" ELSE "wait_slot" ]_vars

\* C29 witness: two clients entered the rate wait at the same time, one
\* with an estimate at 90% of the budget of tokens per minute and one above
\* it, and sleep until the same time.
C29_Witness ==
    \E c1, c2 \in Callers :
        /\ caller[c1].pc = "rate_sleep" /\ caller[c2].pc = "rate_sleep"
        /\ caller[c1].model = caller[c2].model
        /\ caller[c1].current_time = caller[c2].current_time
        /\ ~LargeRequest(caller[c1].estimated_tokens, token_limits[caller[c1].model].tpm)
        /\ LargeRequest(caller[c2].estimated_tokens, token_limits[caller[c2].model].tpm)
        /\ caller[c1].wake = caller[c2].wake

\* ------------------------------------- properties of functions, continued
\* C30: an attempt on a transcript the split leaves whole (second part
\* empty) issues one provider call, and none for a second half or a merge.
C30_SinglePassBelowThreshold ==
    ( /\ fn_input.fn = "_make_api_call_with_retry"
      /\ fn_output.returned
      /\ split_transcript_with_overlap(fn_input.text_content, OverlapLines)[2] = EmptyText )
        => Len(fn_output.value) = 1

\* A split was applied to a text: the units of the text, the overlap asked
\* for and the units of the two parts returned.
SplitApplied ==
    /\ fn_input.fn \in {"split_transcript_with_overlap", "split_transcript"}
    /\ fn_output.returned
SplitUnits == strip(fn_input.full_transcript).units
PartA == fn_output.value[1].units
PartB == fn_output.value[2].units

\* C31: a split returns the text as it was given with an empty second part
\* exactly when the text has fewer than 20 units; for 20 units or more the
\* second part is not empty.
C31_SplitExactlyFromThreshold ==
    SplitApplied =>
        /\ Len(SplitUnits) < 20
              <=> fn_output.value = << fn_input.full_transcript, EmptyText >>
        /\ Len(SplitUnits) >= 20 => fn_output.value[2] # EmptyText

\* C31 witness: a text of 19 units with white space around it came back
\* as the first part, the second part empty.
C31_Witness ==
    /\ SplitApplied
    /\ Len(SplitUnits) = 19
    /\ fn_input.full_transcript.padded
    /\ fn_output.value = << fn_input.full_transcript, EmptyText >>

\* C32: for n >= 20 units and overlap k the first part is the first n div 2
\* units, the second part is the last k units of the first part followed by
\* the remaining units, and the first part without its last k units
\* followed by the second part is the text: every unit once, in order.
C32_SplitCoversText ==
    (SplitApplied /\ Len(SplitUnits) >= 20) =>
        LET n == Len(SplitUnits)
            k == Min(fn_input.overlap, Len(PartA))
        IN  /\ PartA = SubSeq(SplitUnits, 1, n \div 2)
            /\ PartB = SubSeq(PartA, Len(PartA) - k + 1, Len(PartA))
                           \o SubSeq(SplitUnits, n \div 2 + 1, n)
            /\ SubSeq(PartA, 1, Len(PartA) - k) \o PartB = SplitUnits

\* C32 witness: a text of 21 units was split with the overlap of 5.
C32_Witness ==
    /\ SplitApplied
    /\ Len(SplitUnits) = 21
    /\ fn_input.overlap = 5
    /\ Len(PartA) = 10 /\ Len(PartB) = 16

\* C33, as stated: for a text of 20 units or more the place in the text
\* (counted from 0) at which the second part begins is the length of the
\* first part plus the overlap.
C33_PartBBeginsAfterOverlap ==
    (SplitApplied /\ Len(SplitUnits) >= 20) =>
        PartB[1] - 1 = Len(PartA) + fn_input.overlap

\* C33, amended: the second part begins at the length of the first part
\* minus the overlap, and at the start of the text when the overlap is
\* longer than the first part.
C33_PartBBeginsBeforeMiddle ==
    (SplitApplied /\ Len(SplitUnits) >= 20) =>
        PartB[1] - 1 = IF Len(PartA) - fn_input.overlap > 0
                       THEN Len(PartA) - fn_input.overlap ELSE 0

\* C33 witness: a text of 20 units split with the overlap of 5 has a second
\* part that begins at place 5.
C33_Witness ==
    /\ SplitApplied
    /\ Len(SplitUnits) = 20
    /\ fn_input.overlap = 5
    /\ PartB[1] - 1 = 5

\* ------------------------------------------ properties of the task, continued
\* The file the task of job j is working on has its error recorded by the
\* step.
RecordsFileError(j) ==
    /\ CurrentFile(j) \notin DOMAIN batch_jobs[j].errors
    /\ CurrentFile(j) \in DOMAIN batch_jobs'[j].errors
RecordsFileResult(j) ==
    /\ CurrentFile(j) \notin DOMAIN batch_jobs[j].results
    /\ CurrentFile(j) \in DOMAIN batch_jobs'[j].results
InFile(j) == task[j].pc \in {"read_url", "request_stt", "poll", "analyze", "await_analysis"}

\* C34: for each file the task resolves the read locator, submits to the
\* transcription provider, polls, analyses and records, in this order; a
\* step that ends in an error of the file (no read locator, a refused
\* submission, a failed or timed-out transcription, a raised analysis)
\* records it and goes to the next file, so nothing is submitted without a
\* locator and nothing is analysed without a transcript; an analysis call
\* runs only while the task awaits it.
C34_FileStepsInOrder ==
    /\ [](\A j \in JobIds :
             /\ (Known(j) /\ InFile(j))
                   => CurrentFile(j) \notin DOMAIN batch_jobs[j].errors
                                             \cup DOMAIN batch_jobs[j].results
             /\ call[j].pc # "idle" => task[j].pc = "await_analysis"
             /\ task[j].pc \in {"analyze", "await_analysis"}
                   => task[j].transcribed_text # "none")
    /\ [][ \A j \in JobIds :
              (Known(j) /\ InFile(j) /\ task'[j] # task[j]) =>
                  LET t == task[j]
                      u == task'[j]
                      ended == u.pc \in {"read_url", "done"}
                  IN  /\ u.pc = "request_stt"
                            => t.pc = "read_url" /\ u.i = t.i /\ batch_jobs' = batch_jobs
                      /\ u.pc = "poll"
                            => t.pc \in {"request_stt", "poll"} /\ u.i = t.i
                               /\ batch_jobs' = batch_jobs
                      /\ u.pc = "analyze"
                            => t.pc = "poll" /\ u.i = t.i /\ batch_jobs' = batch_jobs
                      /\ u.pc = "await_analysis"
                            => t.pc = "analyze" /\ u.i = t.i /\ batch_jobs' = batch_jobs
                      /\ RecordsFileResult(j) => t.pc = "await_analysis"
                      /\ ended <=> (RecordsFileError(j) \/ RecordsFileResult(j))
                      /\ ended => /\ ~(RecordsFileError(j) /\ RecordsFileResult(j))
                                  /\ u.pc = "read_url" => u.i = t.i + 1
                                  /\ u.pc = "done" => t.i + 1 = Len(batch_jobs[j].gcs_object_names) ]_vars

\* C34 witness: of a finished job one file has no read locator, one timed
\* out in transcription, and one was analysed and recorded.
C34_Witness ==
    \E j \in JobIds :
        /\ Known(j)
        /\ batch_jobs[j].status = "completed"
        /\ \E f, g, h \in DOMAIN batch_jobs[j].errors \cup DOMAIN batch_jobs[j].results :
              /\ f \in DOMAIN batch_jobs[j].errors
              /\ batch_jobs[j].errors[f] = "read url failed"
              /\ g \in DOMAIN batch_jobs[j].errors
              /\ batch_jobs[j].errors[g] = "stt timeout"
              /\ h \in DOMAIN batch_jobs[j].results

\* ------------------------------------------ properties of the shared counters
\* The step in which the analyze call of job j starts trying model m.
TriesModel(j, m) ==
    /\ call[j].pc = "try_model"
    /\ call'[j].pc # "try_model"
    /\ m = ModelFallbackChain[batch_jobs[j].ai_provider][call[j].model_index]

\* The analyze calls of both jobs are under way with the same provider.
BothAnalyzing ==
    /\ \A j \in ConcurrentJobIds : Known(j) /\ call[j].pc \notin {"idle", "returned"}
    /\ \A j, k \in ConcurrentJobIds : batch_jobs[j].ai_provider = batch_jobs[k].ai_provider

\* C35: no counter of a model ever decreases, successes never exceed
\* attempts, and attempts grows by one exactly in the step in which an
\* analyze call starts trying the model (a retry of the same model leaves
\* it alone), whatever the order in which the calls of two jobs take their
\* steps.
C35_CountersMonotone ==
    /\ [](\A m \in Models : model_stats[m].successes <= model_stats[m].attempts)
    /\ [][ \A m \in Models :
              /\ model_stats'[m].successes >= model_stats[m].successes
              /\ model_stats'[m].rate_limited >= model_stats[m].rate_limited
              /\ model_stats'[m].attempts = model_stats[m].attempts +
                     Cardinality({ j \in ConcurrentJobIds : TriesModel(j, m) }) ]_vars

\* C35 witness: while the calls of both jobs are under way with one
\* provider, a model has been tried by both (attempts 2) and one of the
\* calls is waiting to retry it.
C35_Witness ==
    /\ BothAnalyzing
    /\ \E m \in Models :
          /\ model_stats[m].attempts = 2
          /\ model_stats[m].successes = 0
          /\ \E j \in ConcurrentJobIds : call[j].attempt > 0 /\ call[j].pc = "backoff"

\* C40: in every state the attempts counter of a model is at least that of
\* every model after it in its provider's fallback chain, whatever the
\* order in which the calls of two jobs take their steps.
C40_EarlierModelsTriedFirst ==
    \A p \in Providers :
        \A k, l \in 1..Len(ModelFallbackChain[p]) :
            k < l => model_stats[ModelFallbackChain[p][k]].attempts
                        >= model_stats[ModelFallbackChain[p][l]].attempts

\* C40 witness: while the calls of both jobs are under way with one
\* provider, its first model has been tried by both and its second model
\* by one of them.
C40_Witness ==
    /\ BothAnalyzing
    /\ \E p \in Providers :
          /\ model_stats[ModelFallbackChain[p][1]].attempts = 2
          /\ model_stats[ModelFallbackChain[p][2]].attempts = 1

\* ------------------------------------- properties of the limiter, continued
\* C36: the request times recorded for a model are in time order in every
\* state, also when several clients sleep in the rate wait and record
\* their requests afterwards.
C36_TimestampsOrdered ==
    \A m \in DOMAIN last_request_times :
        \A i, k \in 1..Len(last_request_times[m]) :
            i < k => last_request_times[m][i] <= last_request_times[m][k]

\* C37: whatever public operations of the manager are called on a model
\* (guarded calls, release_slot on its own, add_model while permits are
\* out), the number get_available_slots reports stays within 0..cap.
C37_AvailableSlotsWithinCap ==
    \A m \in DOMAIN semaphores : get_available_slots(m) \in 0..ConfiguredCap(m)

\* C38: a poll answered with a 5xx status is transient: no step of the
\* polling loop ends the file with the error of a server failure, the loop
\* polls again instead (only a 4xx, a failed transcription or the attempt
\* limit end it).
C38_ServerErrorPolledAgain ==
    [][\A j \in DOMAIN task :
          (task[j].pc = "poll" /\ RecordsFileError(j))
              => batch_jobs'[j].errors[CurrentFile(j)] # "stt processing error"]_vars

\* The calls of the OpenAI chain that hold a slot of model m: those between
\* entering and leaving the guarded block.
SlotHolders(m) ==
    { j \in DOMAIN call : /\ Known(j)
                          /\ Provider(j) = "openai"
                          /\ call[j].pc = "request"
                          /\ ModelName(j) = m }

====
